---- MODULE Spec2Model ----
(***************************************************************************)
(* Model of the concrete-core calculation engine (calculator.ts).          *)
(*                                                                         *)
(* The engine is a library of pure functions over JavaScript numbers.      *)
(* Numbers are modelled as exact rationals (sign, numerator, denominator)  *)
(* over arbitrary-size naturals, so that every product, quotient and       *)
(* comparison of the source is computed, not approximated.  Floating-point *)
(* rounding of the IEEE doubles is not modelled.                           *)
(*                                                                         *)
(* The state is the call in progress: the operation, its arguments and     *)
(* the value it returned.                                                  *)
(***************************************************************************)
EXTENDS Integers, Sequences, FiniteSets, TLC

\* ------------------------------------------------------------------------
\* Arbitrary-size naturals: little-endian sequences of limbs, no high zero
\* limb, zero is the empty sequence.
\*
\* TLC hands an operator its arguments unevaluated and evaluates them at
\* every use.  The operators below therefore bind each argument to its value
\* first, as the only element of a set: CHOOSE r \in {e(x) : x \in {x0}} : TRUE
\* is e(x0) with x0 evaluated once.
\* ------------------------------------------------------------------------
Base == 100 * 100

RECURSIVE NatToBig(_)
NatToBig(n0) ==
  CHOOSE r \in {IF n = 0 THEN <<>> ELSE <<n % Base>> \o NatToBig(n \div Base) :
                n \in {n0}} : TRUE

RECURSIVE BigToNat(_)
BigToNat(a0) ==
  CHOOSE r \in {IF a = <<>> THEN 0 ELSE a[1] + Base * BigToNat(Tail(a)) :
                a \in {a0}} : TRUE

RECURSIVE BTrim(_)
BTrim(a0) ==
  CHOOSE r \in {IF a = <<>> THEN <<>>
                ELSE IF a[Len(a)] = 0 THEN BTrim(SubSeq(a, 1, Len(a) - 1))
                ELSE a : a \in {a0}} : TRUE

Limb(a, i) == IF i <= Len(a) THEN a[i] ELSE 0

\* a and b are values; c is the carry into limb i
RECURSIVE BAddFrom(_, _, _, _)
BAddFrom(a, b, i, c) ==
  IF i > Len(a) /\ i > Len(b)
  THEN (IF c = 0 THEN <<>> ELSE <<c>>)
  ELSE CHOOSE r \in {<<t % Base>> \o BAddFrom(a, b, i + 1, t \div Base) :
                     t \in {Limb(a, i) + Limb(b, i) + c}} : TRUE

BAdd(a0, b0) ==
  CHOOSE r \in {IF a = <<>> THEN b ELSE IF b = <<>> THEN a ELSE BAddFrom(a, b, 1, 0) :
                a \in {a0}, b \in {b0}} : TRUE

RECURSIVE BSubFrom(_, _, _, _)
BSubFrom(a, b, i, br) ==
  IF i > Len(a) THEN <<>>
  ELSE CHOOSE r \in {IF t < 0 THEN <<t + Base>> \o BSubFrom(a, b, i + 1, 1)
                              ELSE <<t>> \o BSubFrom(a, b, i + 1, 0) :
                     t \in {a[i] - Limb(b, i) - br}} : TRUE

\* a - b for a >= b
BSub(a0, b0) ==
  CHOOSE r \in {IF b = <<>> THEN a ELSE BTrim(BSubFrom(a, b, 1, 0)) :
                a \in {a0}, b \in {b0}} : TRUE

RECURSIVE BCmpAt(_, _, _)
BCmpAt(a, b, i) ==
  IF i = 0 THEN 0
  ELSE IF a[i] # b[i] THEN (IF a[i] < b[i] THEN -1 ELSE 1)
  ELSE BCmpAt(a, b, i - 1)

\* -1, 0 or 1 as a < b, a = b, a > b
BCmp(a0, b0) ==
  CHOOSE r \in {IF Len(a) # Len(b) THEN (IF Len(a) < Len(b) THEN -1 ELSE 1)
                ELSE BCmpAt(a, b, Len(a)) : a \in {a0}, b \in {b0}} : TRUE

RECURSIVE BMulLimb(_, _, _, _)
BMulLimb(a, k, i, c) ==
  IF i > Len(a)
  THEN (IF c = 0 THEN <<>> ELSE <<c>>)
  ELSE CHOOSE r \in {<<t % Base>> \o BMulLimb(a, k, i + 1, t \div Base) :
                     t \in {a[i] * k + c}} : TRUE

BShift(x0) == CHOOSE r \in {IF x = <<>> THEN <<>> ELSE <<0>> \o x : x \in {x0}} : TRUE

RECURSIVE BMulFrom(_, _, _)
BMulFrom(a, b, j) ==
  IF j > Len(b) THEN <<>>
  ELSE BAdd(IF b[j] = 0 THEN <<>> ELSE BMulLimb(a, b[j], 1, 0),
            BShift(BMulFrom(a, b, j + 1)))

BMul(a0, b0) ==
  CHOOSE r \in {IF p[2] = <<>> THEN <<>> ELSE BMulFrom(p[1], p[2], 1) :
                p \in {IF Len(a0) >= Len(b0) THEN <<a0, b0>> ELSE <<b0, a0>>}} : TRUE

\* the products xs[i] * ys[i]
BMulEach(xs, ys) == [i \in DOMAIN xs |-> BMul(xs[i], ys[i])]

\* remainder and quotient of a by a single limb k, 0 < k < Base
RECURSIVE BModAt(_, _, _, _)
BModAt(a, k, i, r0) ==
  IF i = 0 THEN r0
  ELSE CHOOSE x \in {BModAt(a, k, i - 1, (r * Base + a[i]) % k) : r \in {r0}} : TRUE

BModLimb(a0, k) == CHOOSE r \in {BModAt(a, k, Len(a), 0) : a \in {a0}} : TRUE

\* the quotient's limbs come out high limb first: limb i is computed from the
\* remainder r of the limbs above it
RECURSIVE BDivDown(_, _, _, _)
BDivDown(a, k, i, r) ==
  IF i = 0 THEN <<>>
  ELSE CHOOSE x \in {BDivDown(a, k, i - 1, t % k) \o <<t \div k>> :
                     t \in {r * Base + a[i]}} : TRUE

BDivLimb(a0, k) == CHOOSE r \in {BTrim(BDivDown(a, k, Len(a), 0)) : a \in {a0}} : TRUE

RECURSIVE GCD(_, _)
GCD(x0, y0) ==
  CHOOSE r \in {IF y = 0 THEN x ELSE GCD(y, x % y) : x \in {x0}, y \in {y0}} : TRUE

\* ------------------------------------------------------------------------
\* Exact numbers: [neg, n, d, pi] is (+/-) n / d x Math.PI^pi with d > 0, so a
\* rational has pi = 0; zero is [FALSE, <<>>, <<1>>, 0].  Math.PI is carried as
\* a symbol, which keeps every value of the pull-off formulas exact.  n / d is
\* reduced by the full gcd when both parts fit two limbs, otherwise by the
\* common prime factors below 72, so equality of values is REq, not =.
\* Sums and comparisons are between numbers of the same power of Math.PI.
\* ------------------------------------------------------------------------
\* the high powers come first so that a long run of one prime is divided out
\* in few steps
SmallPrimes ==
  <<4096, 16, 2, 625, 5, 81, 3, 7, 11, 13, 17, 19, 23, 29, 31, 37, 41, 43, 47, 53, 59,
    61, 67, 71>>

IsSmall(nd) == Len(nd[1]) <= 2 /\ Len(nd[2]) <= 2

\* n / d of two naturals that fit a machine integer each, in lowest terms
ReduceSmall(nd) ==
  CHOOSE r \in {[i \in 1..2 |-> NatToBig(xy[i] \div GCD(xy[1], xy[2]))] :
                xy \in {[i \in 1..2 |-> BigToNat(nd[i])]}} : TRUE

RECURSIVE ReduceBy(_, _)
ReduceBy(nd0, p) ==
  CHOOSE r \in {IF \A i \in 1..2 : BModLimb(nd[i], p) = 0
                THEN ReduceBy([i \in 1..2 |-> BDivLimb(nd[i], p)], p)
                ELSE nd : nd \in {nd0}} : TRUE

RECURSIVE ReduceAll(_, _)
ReduceAll(nd0, i) ==
  CHOOSE r \in {IF i > Len(SmallPrimes) THEN nd
                ELSE ReduceAll(ReduceBy(nd, SmallPrimes[i]), i + 1) :
                nd \in {nd0}} : TRUE

Reduce(n, d) ==
  IF n = <<>> THEN <<<<>>, <<1>>>>
  ELSE CHOOSE x \in {IF IsSmall(r) THEN ReduceSmall(r) ELSE r :
                     r \in {IF IsSmall(<<n, d>>) THEN <<n, d>>
                            ELSE ReduceAll(<<n, d>>, 1)}} : TRUE

MkPiRat(neg, n0, d0, k) ==
  CHOOSE x \in {[neg |-> neg /\ r[1] # <<>>, n |-> r[1], d |-> r[2],
                 pi |-> IF r[1] = <<>> THEN 0 ELSE k] :
                r \in {Reduce(n0, d0)}} : TRUE

MkRat(neg, n0, d0) == MkPiRat(neg, n0, d0, 0)

\* the rational p / q of two integers, q > 0
Rat(p, q) == MkRat(p < 0, NatToBig(IF p < 0 THEN -p ELSE p), NatToBig(q))

RZero == [neg |-> FALSE, n |-> <<>>, d |-> <<1>>, pi |-> 0]
ROne == [neg |-> FALSE, n |-> <<1>>, d |-> <<1>>, pi |-> 0]

RNeg(a0) ==
  CHOOSE r \in {[a EXCEPT !.neg = ~a.neg /\ a.n # <<>>] : a \in {a0}} : TRUE

RAbs(a) == [a EXCEPT !.neg = FALSE]

\* 1 / a for a # 0
RInv(a0) ==
  CHOOSE r \in {[neg |-> a.neg, n |-> a.d, d |-> a.n, pi |-> -a.pi] : a \in {a0}} : TRUE

\* the sum of two signed naturals <<neg, magnitude>>, as such a pair
SignedAdd(negA, x, negB, y) ==
  IF negA = negB THEN <<negA, BAdd(x, y)>>
  ELSE CHOOSE r \in {<<IF c >= 0 THEN negA ELSE negB,
                        BSub(IF c >= 0 THEN x ELSE y, IF c >= 0 THEN y ELSE x)>> :
                      c \in {BCmp(x, y)}} : TRUE

\* the power of Math.PI two numbers share; a zero shares every power
SamePi(a, b) ==
  IF a.n = <<>> THEN b.pi
  ELSE IF b.n = <<>> THEN a.pi
  ELSE CHOOSE k \in {a.pi} : k = b.pi

RAdd(a0, b0) ==
  CHOOSE r \in
    {MkPiRat(s[1], s[2], P[3], k) :
     <<s, P, k>> \in
       {<<SignedAdd(a.neg, P1[1], b.neg, P1[2]), P1, SamePi(a, b)>> :
        <<a, b, P1>> \in
          {<<a1, b1, BMulEach(<<a1.n, b1.n, a1.d>>, <<b1.d, a1.d, b1.d>>)>> :
           a1 \in {a0}, b1 \in {b0}}}} : TRUE

RSub(a, b) == RAdd(a, RNeg(b))

RMul(a0, b0) ==
  CHOOSE r \in {MkPiRat(a.neg # b.neg, P[1], P[2], a.pi + b.pi) :
                <<a, b, P>> \in {<<a1, b1, BMulEach(<<a1.n, a1.d>>, <<b1.n, b1.d>>)>> :
                                 a1 \in {a0}, b1 \in {b0}}} : TRUE

\* a / b for b # 0
RDiv(a, b) == RMul(a, RInv(b))

\* -1, 0 or 1 as a < b, a = b, a > b
RCmp(a0, b0) ==
  CHOOSE r \in {IF a.neg # b.neg THEN (IF a.neg THEN -1 ELSE 1)
                ELSE CHOOSE c \in {IF a.neg THEN -BCmp(P[1], P[2]) ELSE BCmp(P[1], P[2]) :
                                   P \in {BMulEach(<<a.n, b.n>>, <<b.d, a.d>>)}} :
                       SamePi(a, b) = SamePi(b, a) :
                a \in {a0}, b \in {b0}} : TRUE

REq(a, b) == RCmp(a, b) = 0
RLt(a, b) == RCmp(a, b) < 0
RLe(a, b) == RCmp(a, b) <= 0
RMax(a0, b0) == CHOOSE r \in {IF RLt(a, b) THEN b ELSE a : a \in {a0}, b \in {b0}} : TRUE
RMin(a0, b0) == CHOOSE r \in {IF RLt(b, a) THEN b ELSE a : a \in {a0}, b \in {b0}} : TRUE

\* the largest q in lo..hi with q x d <= n, given lo x d <= n
RECURSIVE FloorSearch(_, _, _, _)
FloorSearch(n, d, lo, hi) ==
  IF lo = hi THEN lo
  ELSE CHOOSE q \in {IF BCmp(BMul(NatToBig(mid), d), n) <= 0
                     THEN FloorSearch(n, d, mid, hi)
                     ELSE FloorSearch(n, d, lo, mid - 1) :
                     mid \in {(lo + hi + 1) \div 2}} : TRUE

\* floor(n / d) of two naturals whose quotient is below 2^30
BFloorDiv(n, d) == FloorSearch(n, d, 0, 2^30 - 1)

\* Math.floor of a rational
MathFloor(x0) ==
  CHOOSE r \in {IF x.n = <<>> THEN RZero
                ELSE IF x.neg THEN Rat(-(BFloorDiv(BSub(x.n, <<1>>), x.d) + 1), 1)
                ELSE Rat(BFloorDiv(x.n, x.d), 1) : x \in {x0}} : TRUE

\* Math.round of a rational: the nearest integer, halves upwards
MathRound(x) == MathFloor(RAdd(x, Rat(1, 2)))

\* ------------------------------------------------------------------------
\* IEEE 754 doubles: a number of the runtime is a rational m x 2^e with
\* 2^52 <= m < 2^53 (or 0), and every operation gives the double nearest to
\* the exact result, halves to the even m.  The values of the engine are far
\* from the subnormal and the overflow range, which are left out.
\* ------------------------------------------------------------------------
RECURSIVE BPow2(_)
BPow2(k) == IF k < 13 THEN <<2^k>> ELSE BMulLimb(BPow2(k - 13), 2^13, 1, 0)

TwoTo26 == BPow2(26)
TwoTo52 == BPow2(52)

\* <<n, d, e>> with n / d x 2^e the value of the n / d given and
\* 2^52 <= n / d < 2^53; low is d x 2^52.  n is raised in steps of 2^13 while
\* that stays below 2^53 x d, and of 2 after that; d is raised in steps of 2.
RECURSIVE ScaleWithin(_, _, _, _)
ScaleWithin(n0, d0, low0, e0) ==
  CHOOSE r \in {IF BCmp(n, high) >= 0
                THEN ScaleWithin(n, BMulLimb(d, 2, 1, 0), high, e + 1)
                ELSE IF BCmp(n13, high) < 0
                THEN ScaleWithin(n13, d, low, e - 13)
                ELSE IF BCmp(n, low) < 0
                THEN ScaleWithin(BMulLimb(n, 2, 1, 0), d, low, e - 1)
                ELSE <<n, d, e>> :
                <<n, d, low, e, high, n13>> \in
                  {<<n1, d1, low1, e1, BMulLimb(low1, 2, 1, 0), BMulLimb(n1, 2^13, 1, 0)>> :
                   n1 \in {n0}, d1 \in {d0}, low1 \in {low0}, e1 \in {e0}}} : TRUE

ScaleToMantissa(n, d, e) == ScaleWithin(n, d, BMul(d, TwoTo52), e)

\* <<quotient, remainder>> of n by d for a quotient below 2^53: the high 27
\* bits of the quotient first, then the low 26
DivideMantissa(n0, d0) ==
  CHOOSE x \in
    {<<BAdd(BMul(NatToBig(hi), TwoTo26), NatToBig(lo[1])), BSub(lo[2], BMul(NatToBig(lo[1]), d))>> :
     <<d, hi, lo>> \in
       {<<d1, hi1, CHOOSE p \in {<<FloorSearch(r1, d1, 0, 2^26 - 1), r1>> :
                                  r1 \in {BSub(n1, BMul(NatToBig(hi1), dHigh))}} : TRUE>> :
        <<n1, d1, dHigh, hi1>> \in
          {<<n2, d2, dh, FloorSearch(n2, dh, 0, 2^27 - 1)>> :
           <<n2, d2, dh>> \in {<<n3, d3, BMul(d3, TwoTo26)>> : n3 \in {n0}, d3 \in {d0}}}}} : TRUE

\* the quotient, or the next natural when the remainder is above half of d
\* or half of d with an odd quotient
RoundHalfEven(q, r, d) ==
  CHOOSE m \in {IF half > 0 \/ (half = 0 /\ q[1] % 2 = 1) THEN BAdd(q, <<1>>) ELSE q :
                half \in {BCmp(BMulLimb(r, 2, 1, 0), d)}} : TRUE

\* the mantissa nearest to n / d, halves to the even one
NearestMantissa(n, d) ==
  CHOOSE m \in {RoundHalfEven(qr[1], qr[2], d) : qr \in {DivideMantissa(n, d)}} : TRUE

\* the double nearest to a rational
ToDouble(x0) ==
  CHOOSE r \in {IF x.n = <<>> THEN RZero
                ELSE CHOOSE y \in {IF s[3] >= 0
                                   THEN MkRat(x.neg, BMul(NearestMantissa(s[1], s[2]), BPow2(s[3])), <<1>>)
                                   ELSE MkRat(x.neg, NearestMantissa(s[1], s[2]), BPow2(-s[3])) :
                                   s \in {ScaleToMantissa(x.n, x.d, 0)}} : TRUE :
                x \in {x0}} : TRUE

\* Math.PI, the double nearest to pi: 884279719003555 / 2^48
MathPI_double == MkRat(FALSE, <<3555, 1900, 2797, 884>>, BPow2(48))

\* ------------------------------------------------------------------------
\* Square roots: [sq |-> q] is the non-negative number whose square is the
\* number q, so Math.sqrt and Math.pow(x, 2) are exact.
\* ------------------------------------------------------------------------
MathSqrt(q) == [sq |-> q]

\* Math.pow(x, 2) of a rational and of a root
Square(x) == RMul(x, x)
RootSquare(r) == r.sq

\* a non-negative rational c as a root, and the products and quotients that
\* the engine forms with roots
ToRoot(c) == [sq |-> RMul(c, c)]
RootMul(a, b) == [sq |-> RMul(a.sq, b.sq)]
RootDiv(a, b) == [sq |-> RDiv(a.sq, b.sq)]
RootIsZero(r) == REq(r.sq, RZero)
RootEq(a, b) == REq(a.sq, b.sq)

MathPI == [neg |-> FALSE, n |-> <<1>>, d |-> <<1>>, pi |-> 1]

\* ------------------------------------------------------------------------
\* Correction tables
\* ------------------------------------------------------------------------
\* a decimal literal with two places, e.g. 1.07 is Dec2(107)
Dec2(h) == Rat(h, 100)

Initial_LD_CORRECTION_TABLE ==
  << [ldRatio |-> Rat(15, 10), correctionFactor |-> Dec2(107)],
     [ldRatio |-> Rat(20, 10), correctionFactor |-> Dec2(105)],
     [ldRatio |-> Rat(25, 10), correctionFactor |-> Dec2(104)],
     [ldRatio |-> Rat(30, 10), correctionFactor |-> Dec2(103)],
     [ldRatio |-> Rat(35, 10), correctionFactor |-> Dec2(102)] >>

Initial_MOISTURE_CORRECTION_TABLE ==
  << [condition |-> "dry", factor |-> Dec2(96)],
     [condition |-> "natural", factor |-> Dec2(100)],
     [condition |-> "saturated", factor |-> Dec2(105)] >>

Initial_FG_STRENGTH_POINTS == <<15, 20, 25, 30, 35>>
Initial_FG_DIAMETER_POINTS == <<50, 75, 100, 125, 150>>

\* the grid with the factors of 100 mm at 20 and 25 MPa exchanged
Transposed_FG_TABLE ==
  (50 :> <<Dec2(118), Dec2(115), Dec2(114), Dec2(111), Dec2(108)>>) @@
  (75 :> <<Dec2(115), Dec2(113), Dec2(111), Dec2(109), Dec2(107)>>) @@
  (100 :> <<Dec2(112), Dec2(108), Dec2(110), Dec2(107), Dec2(106)>>) @@
  (125 :> <<Dec2(109), Dec2(107), Dec2(106), Dec2(105), Dec2(104)>>) @@
  (150 :> <<Dec2(107), Dec2(105), Dec2(104), Dec2(103), Dec2(102)>>)

\* diameter |-> Fg at 15, 20, 25, 30, 35 MPa
Initial_FG_TABLE ==
  (50 :> <<Dec2(118), Dec2(115), Dec2(114), Dec2(111), Dec2(108)>>) @@
  (75 :> <<Dec2(115), Dec2(113), Dec2(111), Dec2(109), Dec2(107)>>) @@
  (100 :> <<Dec2(112), Dec2(110), Dec2(108), Dec2(107), Dec2(106)>>) @@
  (125 :> <<Dec2(109), Dec2(107), Dec2(106), Dec2(105), Dec2(104)>>) @@
  (150 :> <<Dec2(107), Dec2(105), Dec2(104), Dec2(103), Dec2(102)>>)

\* The tables are objects of the module, created once with the values above:
\* their contents are part of the state.
VARIABLES LD_CORRECTION_TABLE, MOISTURE_CORRECTION_TABLE, FG_STRENGTH_POINTS, FG_DIAMETER_POINTS, FG_TABLE, DOF_K_TABLE
tables == <<LD_CORRECTION_TABLE, MOISTURE_CORRECTION_TABLE, FG_STRENGTH_POINTS, FG_DIAMETER_POINTS, FG_TABLE, DOF_K_TABLE>>

\* An optional value is a sequence of at most one element: <<>> is JavaScript's
\* undefined (the field is absent), <<v>> is the value v.
Undefined == <<>>
Defined(v) == <<v>>

\* ------------------------------------------------------------------------
\* Interpolation
\* ------------------------------------------------------------------------
linearInterpolate(x, x1, x2, y1, y2) ==
  RAdd(y1, RDiv(RMul(RSub(x, x1), RSub(y2, y1)), RSub(x2, x1)))

\* NearestScan with "diff <= minDiff" in place of "diff < minDiff": on a tie the
\* later (larger) standard diameter wins
RECURSIVE NearestScanLastTie(_, _, _, _, _)
NearestScanLastTie(diameterMm, stds, i, nearest, minDiff) ==
  IF i > Len(stds) THEN nearest
  ELSE LET diff == RAbs(RSub(diameterMm, Rat(stds[i], 1)))
       IN  IF RLe(diff, minDiff)
           THEN NearestScanLastTie(diameterMm, stds, i + 1, stds[i], diff)
           ELSE NearestScanLastTie(diameterMm, stds, i + 1, nearest, minDiff)

\* the for-loop of roundToNearestStandardDiameter from element i on
RECURSIVE NearestScan(_, _, _, _, _)
NearestScan(diameterMm, stds, i, nearest, minDiff) ==
  IF i > Len(stds) THEN nearest
  ELSE LET diff == RAbs(RSub(diameterMm, Rat(stds[i], 1)))
       IN  IF RLt(diff, minDiff)
           THEN NearestScan(diameterMm, stds, i + 1, stds[i], diff)
           ELSE NearestScan(diameterMm, stds, i + 1, nearest, minDiff)

roundToNearestStandardDiameter(diameterMm) ==
  LET standardDiameters == <<50, 75, 100, 125, 150>>
      nearest == standardDiameters[1]
      minDiff == RAbs(RSub(diameterMm, Rat(nearest, 1)))
  IN  NearestScan(diameterMm, standardDiameters, 1, nearest, minDiff)

\* the interval search of calculateFgCorrectionFactor: the 0-based index i of
\* the first pair with points[i] <= x <= points[i+1] (0 when there is none),
\* overridden by the last interval when x is at or above the last point
RECURSIVE FirstInterval(_, _, _)
FirstInterval(x, points, i) ==
  IF i >= Len(points) - 1 THEN 0
  ELSE IF RLe(Rat(points[i + 1], 1), x) /\ RLe(x, Rat(points[i + 2], 1)) THEN i
  ELSE FirstInterval(x, points, i + 1)

\* the interval search with half-open intervals points[i] <= x < points[i+1]
\* and without the override for the last point
RECURSIVE FirstIntervalHalfOpen(_, _, _)
FirstIntervalHalfOpen(x, points, i) ==
  IF i >= Len(points) - 1 THEN 0
  ELSE IF RLe(Rat(points[i + 1], 1), x) /\ RLt(x, Rat(points[i + 2], 1)) THEN i
  ELSE FirstIntervalHalfOpen(x, points, i + 1)

LowerIdxHalfOpen(x, points) == FirstIntervalHalfOpen(x, points, 0)

LowerIdx(x, points) ==
  IF RLe(Rat(points[Len(points)], 1), x) THEN Len(points) - 2
  ELSE FirstInterval(x, points, 0)

\* FgBilinear with the two off-diagonal corners exchanged (the lower diameter
\* row reads the upper row's lower-strength value and conversely)
FgBilinearSwapped(clampedDiameter, clampedStrength) ==
  LET AtIntervals(dLowerIdx, sLowerIdx) ==
        LET AtCorners(dLower, dUpper, sLower, sUpper) ==
              linearInterpolate(
                clampedDiameter, Rat(dLower, 1), Rat(dUpper, 1),
                linearInterpolate(clampedStrength, Rat(sLower, 1), Rat(sUpper, 1),
                                  FG_TABLE[dLower][sLowerIdx + 1],
                                  FG_TABLE[dUpper][sLowerIdx + 1]),
                linearInterpolate(clampedStrength, Rat(sLower, 1), Rat(sUpper, 1),
                                  FG_TABLE[dLower][sLowerIdx + 2],
                                  FG_TABLE[dUpper][sLowerIdx + 2]))
        IN  AtCorners(FG_DIAMETER_POINTS[dLowerIdx + 1], FG_DIAMETER_POINTS[dLowerIdx + 2],
                      FG_STRENGTH_POINTS[sLowerIdx + 1], FG_STRENGTH_POINTS[sLowerIdx + 2])
  IN  AtIntervals(LowerIdx(clampedDiameter, FG_DIAMETER_POINTS),
                  LowerIdx(clampedStrength, FG_STRENGTH_POINTS))

\* the body of calculateFgCorrectionFactor after its two clamping statements:
\* the interval search on both axes (AtIntervals), the bounding points
\* (AtCorners), the four corners and the three interpolations (strength axis
\* first, then diameter axis)
FgBilinear(clampedDiameter, clampedStrength) ==
  LET AtIntervals(dLowerIdx, sLowerIdx) ==
        LET AtCorners(dLower, dUpper, sLower, sUpper) ==
              linearInterpolate(
                clampedDiameter, Rat(dLower, 1), Rat(dUpper, 1),
                linearInterpolate(clampedStrength, Rat(sLower, 1), Rat(sUpper, 1),
                                  FG_TABLE[dLower][sLowerIdx + 1],
                                  FG_TABLE[dLower][sLowerIdx + 2]),
                linearInterpolate(clampedStrength, Rat(sLower, 1), Rat(sUpper, 1),
                                  FG_TABLE[dUpper][sLowerIdx + 1],
                                  FG_TABLE[dUpper][sLowerIdx + 2]))
        IN  AtCorners(FG_DIAMETER_POINTS[dLowerIdx + 1], FG_DIAMETER_POINTS[dLowerIdx + 2],
                      FG_STRENGTH_POINTS[sLowerIdx + 1], FG_STRENGTH_POINTS[sLowerIdx + 2])
  IN  AtIntervals(LowerIdx(clampedDiameter, FG_DIAMETER_POINTS),
                  LowerIdx(clampedStrength, FG_STRENGTH_POINTS))

\* calculateFgCorrectionFactor without the clamp of the strength
calculateFgCorrectionFactorRawStrength(diameterMm, strengthMPa) ==
  FgBilinear(Rat(roundToNearestStandardDiameter(diameterMm), 1), strengthMPa)

\* calculateFgCorrectionFactor with the diameter clamped to [50, 150] instead of
\* rounded to the nearest standard diameter
calculateFgCorrectionFactorNoSnap(diameterMm, strengthMPa) ==
  FgBilinear(RMax(Rat(50, 1), RMin(Rat(150, 1), diameterMm)),
             RMax(Rat(15, 1), RMin(Rat(35, 1), strengthMPa)))

\* calculateFgCorrectionFactor of the direction-factor calculator
\* (src/unnamed/part_003): the diameter is rounded to the nearest standard one
calculateFgCorrectionFactor(diameterMm, strengthMPa) ==
  LET clampedStrength == RMax(Rat(15, 1), RMin(Rat(35, 1), strengthMPa))
      clampedDiameter == Rat(roundToNearestStandardDiameter(diameterMm), 1)
  IN  FgBilinear(clampedDiameter, clampedStrength)

\* calculateFgCorrectionFactor of the density calculator (src/unnamed/part_002):
\* the same body, but the diameter is clamped to [50, 150] and not rounded
calculateFgCorrectionFactor_density(diameterMm, strengthMPa) ==
  LET clampedStrength == RMax(Rat(15, 1), RMin(Rat(35, 1), strengthMPa))
      clampedDiameter == RMax(Rat(50, 1), RMin(Rat(150, 1), diameterMm))
  IN  FgBilinear(clampedDiameter, clampedStrength)

\* the interpolation loop of calculateLDCorrectionFactor from entry i (0-based)
RECURSIVE LDScan(_, _)
LDScan(scaledRatio, i) ==
  IF i >= Len(LD_CORRECTION_TABLE) - 1 THEN ROne
  ELSE LET lower == LD_CORRECTION_TABLE[i + 1]
           upper == LD_CORRECTION_TABLE[i + 2]
           lowerScaled == RMul(lower.ldRatio, Rat(10, 1))
           upperScaled == RMul(upper.ldRatio, Rat(10, 1))
       IN  IF RLe(lowerScaled, scaledRatio) /\ RLe(scaledRatio, upperScaled)
           THEN RAdd(lower.correctionFactor,
                     RDiv(RMul(RSub(scaledRatio, lowerScaled),
                               RSub(upper.correctionFactor, lower.correctionFactor)),
                          RSub(upperScaled, lowerScaled)))
           ELSE LDScan(scaledRatio, i + 1)

\* calculateLDCorrectionFactor without the early return for a ratio at or below
\* the first table entry
calculateLDCorrectionFactorNoLowerClamp(ldRatio) ==
  LET scaledRatio == RMul(ldRatio, Rat(10, 1))
  IN  IF RLe(Rat(35, 1), scaledRatio)
      THEN LD_CORRECTION_TABLE[Len(LD_CORRECTION_TABLE)].correctionFactor
      ELSE LDScan(scaledRatio, 0)

calculateLDCorrectionFactor(ldRatio) ==
  LET scaledRatio == RMul(ldRatio, Rat(10, 1))
  IN  IF RLe(scaledRatio, Rat(15, 1)) THEN LD_CORRECTION_TABLE[1].correctionFactor
      ELSE IF RLe(Rat(35, 1), scaledRatio)
      THEN LD_CORRECTION_TABLE[Len(LD_CORRECTION_TABLE)].correctionFactor
      ELSE LDScan(scaledRatio, 0)

\* getMoistureCorrectionFactor that never finds an entry and returns the default
getMoistureCorrectionFactorDefault(condition) == ROne

getMoistureCorrectionFactor(condition) ==
  LET found == {i \in 1..Len(MOISTURE_CORRECTION_TABLE) :
                  MOISTURE_CORRECTION_TABLE[i].condition = condition}
  IN  IF found = {} THEN ROne
      ELSE MOISTURE_CORRECTION_TABLE[CHOOSE i \in found : \A j \in found : i <= j].factor

\* the reduce of calculateReinforcementCorrectionFactor over the bars from i on
RECURSIVE SumProduct(_, _, _)
SumProduct(reinforcement, i, sum) ==
  IF i > Len(reinforcement) THEN sum
  ELSE SumProduct(reinforcement, i + 1,
                  RAdd(sum, RMul(reinforcement[i].diameterMm,
                                 reinforcement[i].distanceFromEndMm)))

\* calculateReinforcementCorrectionFactor without the weight 1.5 on the sum
calculateReinforcementCorrectionFactorUnweighted(reinforcement, diameter, length) ==
  IF reinforcement = Undefined \/ Len(reinforcement[1]) = 0 THEN ROne
  ELSE RAdd(ROne, RDiv(SumProduct(reinforcement[1], 1, RZero), RMul(diameter, length)))

calculateReinforcementCorrectionFactor(reinforcement, diameter, length) ==
  IF reinforcement = Undefined \/ Len(reinforcement[1]) = 0 THEN ROne
  ELSE LET sumProduct == SumProduct(reinforcement[1], 1, RZero)
       IN  RAdd(ROne, RDiv(RMul(Rat(15, 10), sumProduct), RMul(diameter, length)))

calculateDensity(weightGrams, diameterMm, lengthMm) ==
  RMul(RDiv(RDiv(RDiv(RMul(weightGrams, Rat(12732, 10000)), diameterMm), diameterMm),
            lengthMm),
       Rat(1000, 1))

\* the load in tonnes-force of 9.80665 kN each
convertKNtoTonsForce(loadKN) == RDiv(loadKN, Rat(980665, 100000))

convertKNtoTons(loadKN) == RDiv(loadKN, Rat(10, 1))

calculateCoreStrength(breakingLoadTons, diameterMm) ==
  RDiv(RMul(RMul(RMul(breakingLoadTons, Rat(1000, 1)), Rat(12732, 10000)), Rat(100, 1)),
       RMul(diameterMm, diameterMm))

RECURSIVE RSum(_, _, _)
RSum(xs, i, sum) == IF i > Len(xs) THEN sum ELSE RSum(xs, i + 1, RAdd(sum, xs[i]))

\* the strength key obtained with the exact conversion 1 kg/cm2 = 0.0980665 MPa
coreStrengthToMPaExact(coreStrength) == RMul(coreStrength, Rat(980665, 10000000))

\* the Fg strength key of calculateCoreSample: kg/cm2 divided by 10
coreStrengthToMPa(coreStrength) == RDiv(coreStrength, Rat(10, 1))

\* the direction factor component computed from the density instead of the
\* direction factor (the formula of the density calculator)
directionFactorComponentFromDensity(directionFactor, calculatedDensity, averageDiameter, averageLength) ==
  RDiv(calculatedDensity, RAdd(Rat(15, 10), RDiv(averageDiameter, averageLength)))

\* directionFactorComponent of calculateCoreSample; calculatedDensity is in
\* scope at this statement and is not read
directionFactorComponentOf(directionFactor, calculatedDensity, averageDiameter, averageLength) ==
  RDiv(directionFactor, RAdd(Rat(15, 10), RDiv(averageDiameter, averageLength)))

\* the final product with the L/D correction factor as one more term
equivalentCubeStrengthWithLD(coreStrength, moistureCorrectionFactor, cuttingCorrectionFactor, ldCorrectionFactor, directionFactorComponent, reinforcementCorrectionFactor) ==
  RMul(RMul(RMul(RMul(RMul(coreStrength, moistureCorrectionFactor),
                      cuttingCorrectionFactor),
                 ldCorrectionFactor),
            directionFactorComponent),
       reinforcementCorrectionFactor)

\* the product of calculateCoreSample's final formula
equivalentCubeStrengthOf(coreStrength, moistureCorrectionFactor, cuttingCorrectionFactor, ldCorrectionFactor, directionFactorComponent, reinforcementCorrectionFactor) ==
  RMul(RMul(RMul(RMul(coreStrength, moistureCorrectionFactor), cuttingCorrectionFactor),
            directionFactorComponent),
       reinforcementCorrectionFactor)

\* The statements of calculateCoreSample in order; each local operator binds
\* the constants computed by the statements before it.
calculateCoreSample(input) ==
  LET Averaged(averageDiameter, averageLength, breakingLoadTons) ==
        LET Measured(ldRatio, calculatedDensity, coreStrength) ==
              LET Corrected(moistureCorrectionFactor, cuttingCorrectionFactor,
                            ldCorrectionFactor, reinforcementCorrectionFactor,
                            directionFactorComponent) ==
                    LET Result(equivalentCubeStrength) ==
                          [averageDiameter |-> averageDiameter,
                           averageLength |-> averageLength,
                           ldRatio |-> ldRatio,
                           calculatedDensity |-> calculatedDensity,
                           breakingLoadTons |-> breakingLoadTons,
                           coreStrength |-> coreStrength,
                           moistureCorrectionFactor |-> moistureCorrectionFactor,
                           cuttingCorrectionFactor |-> cuttingCorrectionFactor,
                           ldCorrectionFactor |-> ldCorrectionFactor,
                           reinforcementCorrectionFactor |-> reinforcementCorrectionFactor,
                           equivalentCubeStrength |-> equivalentCubeStrength,
                           equivalentCubeStrengthMPa |->
                             RMul(equivalentCubeStrength, Rat(980665, 10000000))]
                    IN  Result(equivalentCubeStrengthOf(
                                 coreStrength, moistureCorrectionFactor,
                                 cuttingCorrectionFactor, ldCorrectionFactor,
                                 directionFactorComponent, reinforcementCorrectionFactor))
              IN  Corrected(
                    getMoistureCorrectionFactor(input.aggregateCondition),
                    calculateFgCorrectionFactor(averageDiameter,
                                                coreStrengthToMPa(coreStrength)),
                    calculateLDCorrectionFactor(ldRatio),
                    calculateReinforcementCorrectionFactor(input.reinforcement,
                                                           averageDiameter, averageLength),
                    directionFactorComponentOf(input.directionFactor, calculatedDensity,
                                               averageDiameter, averageLength))
        IN  Measured(
              RDiv(averageLength, averageDiameter),
              IF input.weightGrams # Undefined /\ ~REq(input.weightGrams[1], RZero)
              THEN calculateDensity(input.weightGrams[1], averageDiameter, averageLength)
              ELSE Rat(24, 10),
              calculateCoreStrength(breakingLoadTons, averageDiameter))
  IN  Averaged(RDiv(RSum(input.diameters, 1, RZero), Rat(Len(input.diameters), 1)),
               RDiv(RSum(input.lengths, 1, RZero), Rat(Len(input.lengths), 1)),
               convertKNtoTons(input.breakingLoadKN))

\* ------------------------------------------------------------------------
\* Batch statistics of the core test
\* ------------------------------------------------------------------------
RECURSIVE MinFrom(_, _, _)
MinFrom(xs, i, least) ==
  IF i > Len(xs) THEN least ELSE MinFrom(xs, i + 1, RMin(least, xs[i]))

RECURSIVE MaxFrom(_, _, _)
MaxFrom(xs, i, greatest) ==
  IF i > Len(xs) THEN greatest ELSE MaxFrom(xs, i + 1, RMax(greatest, xs[i]))

\* Math.min(...xs) and Math.max(...xs) of a non-empty list
MathMin(xs) == MinFrom(xs, 2, xs[1])
MathMax(xs) == MaxFrom(xs, 2, xs[1])

\* xs.reduce((a, b) => a + b, 0) / xs.length
MeanOf(xs) == RDiv(RSum(xs, 1, RZero), Rat(Len(xs), 1))

\* xs.reduce((sum, x) => sum + Math.pow(x - mean, 2), 0)
RECURSIVE SumSquaredDiffs(_, _, _, _)
SumSquaredDiffs(xs, mean, i, sum) ==
  IF i > Len(xs) THEN sum
  ELSE SumSquaredDiffs(xs, mean, i + 1, RAdd(sum, Square(RSub(xs[i], mean))))

\* the variance with Bessel's divisor n - 1, and 0 for fewer than two values
sampleVarianceOf(strengths, averageStrength) ==
  IF Len(strengths) < 2 THEN RZero
  ELSE RDiv(SumSquaredDiffs(strengths, averageStrength, 1, RZero),
            Rat(Len(strengths) - 1, 1))

\* variance of calculateBatch: the squared deviations divided by n
varianceOf(strengths, averageStrength) ==
  RDiv(SumSquaredDiffs(strengths, averageStrength, 1, RZero), Rat(Len(strengths), 1))

\* the statistics taken over the MPa values of the results
strengthsOfMPa(results) == [i \in DOMAIN results |-> results[i].equivalentCubeStrengthMPa]

\* strengths of calculateBatch: the equivalent cube strengths in kg/cm2
strengthsOf(results) == [i \in DOMAIN results |-> results[i].equivalentCubeStrength]

calculateBatch(samples) ==
  LET Summarised(results, strengths) ==
        LET Deviating(averageStrength) ==
              [results |-> results,
               averageStrength |-> averageStrength,
               minimumStrength |-> MathMin(strengths),
               maximumStrength |-> MathMax(strengths),
               standardDeviation |-> MathSqrt(varianceOf(strengths, averageStrength))]
        IN  Deviating(MeanOf(strengths))
      Mapped(results) == Summarised(results, strengthsOf(results))
  IN  Mapped([i \in DOMAIN samples |-> calculateCoreSample(samples[i])])

\* ------------------------------------------------------------------------
\* Pull-off test
\* ------------------------------------------------------------------------
calculateCircularArea(diameterMm) ==
  LET Area(radius) == RMul(RMul(MathPI, radius), radius)
  IN  Area(RDiv(diameterMm, Rat(2, 1)))

calculateTensileStrength(loadN, diameterMm) == RDiv(loadN, calculateCircularArea(diameterMm))

calculatePullOffSample(input) ==
  LET Converted(failureLoadN) ==
        [specimenNumber |-> input.specimenNumber,
         specimenCode |-> input.specimenCode,
         testedItem |-> input.testedItem,
         diameterMm |-> input.diameterMm,
         failureMode |-> input.failureMode,
         failureLoadKN |-> input.failureLoadKN,
         failureLoadN |-> failureLoadN,
         areaMm2 |-> calculateCircularArea(input.diameterMm),
         tensileStrengthMPa |-> calculateTensileStrength(failureLoadN, input.diameterMm)]
  IN  Converted(RMul(input.failureLoadKN, Rat(1000, 1)))

\* the standard deviation with the divisor n and without the guard
calculateStandardDeviationPopulation(values) ==
  MathSqrt(RDiv(SumSquaredDiffs(values, MeanOf(values), 1, RZero), Rat(Len(values), 1)))

calculateStandardDeviation(values) ==
  IF Len(values) < 2 THEN ToRoot(RZero)
  ELSE MathSqrt(RDiv(SumSquaredDiffs(values, MeanOf(values), 1, RZero),
                     Rat(Len(values) - 1, 1)))

\* the decimal literal 0.007378583333333333
CalibrationDiameterLiteral ==
  MkRat(FALSE, <<3333, 3333, 5833, 7378>>, <<0, 0, 0, 0, 100>>)

\* Type B from the calibration terms alone
uncertaintyTypeBCalibrationOnly(uLoadCal_contrib, uLoadRes_contrib, uDiamCal_contrib, uDiamRes_contrib) ==
  MathSqrt(RAdd(RootSquare(uLoadCal_contrib), RootSquare(uDiamCal_contrib)))

\* uncertaintyTypeB of calculatePullOffUncertainty
uncertaintyTypeBOf(uLoadCal_contrib, uLoadRes_contrib, uDiamCal_contrib, uDiamRes_contrib) ==
  MathSqrt(RAdd(RAdd(RAdd(RootSquare(uLoadCal_contrib), RootSquare(uLoadRes_contrib)),
                     RootSquare(uDiamCal_contrib)),
                RootSquare(uDiamRes_contrib)))

calculatePullOffUncertainty(results, diameters, loads) ==
  LET Budget(averageStrength, averageDiameter, averageLoad, diameterSD, loadSD) ==
        LET Sources(Cp, CD, uRepLoad, uCalLoad, uResLoad, uRepDiam, uCalDiam, uResDiam) ==
              LET Combined(uncertaintyTypeA, uncertaintyTypeB) ==
                    LET Expanded(combinedUncertainty) ==
                          [diameterSD |-> diameterSD,
                           averageDiameter |-> averageDiameter,
                           loadSD |-> loadSD,
                           averageLoad |-> averageLoad,
                           averageStrength |-> averageStrength,
                           uncertaintyRepeatabilityDiameter |-> uRepDiam,
                           uncertaintyCalibrationDiameter |-> uCalDiam,
                           uncertaintyResolutionDiameter |-> uResDiam,
                           uncertaintyRepeatabilityLoad |-> uRepLoad,
                           uncertaintyCalibrationLoad |-> uCalLoad,
                           uncertaintyResolutionLoad |-> uResLoad,
                           uncertaintyTypeA |-> uncertaintyTypeA,
                           uncertaintyTypeB |-> uncertaintyTypeB,
                           combinedUncertainty |-> combinedUncertainty,
                           expandedUncertainty |-> RootMul(ToRoot(Rat(2, 1)),
                                                           combinedUncertainty)]
                    IN  Expanded(MathSqrt(RAdd(RootSquare(uncertaintyTypeA),
                                               RootSquare(uncertaintyTypeB))))
              IN  Combined(MathSqrt(RAdd(RootSquare(RootMul(uRepLoad, ToRoot(Cp))),
                                         RootSquare(RootMul(uRepDiam, ToRoot(RAbs(CD)))))),
                           uncertaintyTypeBOf(RootMul(ToRoot(uCalLoad), ToRoot(Cp)),
                                              RootMul(uResLoad, ToRoot(Cp)),
                                              RootMul(ToRoot(uCalDiam), ToRoot(RAbs(CD))),
                                              RootMul(uResDiam, ToRoot(RAbs(CD)))))
        IN  Sources(RDiv(Rat(4, 1), RMul(RMul(MathPI, averageDiameter), averageDiameter)),
                    RDiv(RMul(Rat(-2, 1), averageStrength), averageDiameter),
                    RootDiv(loadSD, MathSqrt(Rat(3, 1))),
                    RDiv(Rat(1045, 10), Rat(2, 1)),
                    RootDiv(ToRoot(Rat(50, 1)), MathSqrt(Rat(3, 1))),
                    RootDiv(diameterSD, MathSqrt(Rat(3, 1))),
                    RDiv(CalibrationDiameterLiteral, Rat(2, 1)),
                    RootDiv(ToRoot(Rat(1, 100)), MathSqrt(Rat(3, 1))))
  IN  Budget(MeanOf([i \in DOMAIN results |-> results[i].tensileStrengthMPa]),
             MeanOf(diameters), MeanOf(loads),
             calculateStandardDeviation(diameters), calculateStandardDeviation(loads))

\* the coefficient of variation of the strengths
coefficientOfVariationFromStrengths(loadsKN, strengths) ==
  RootMul(RootDiv(calculateStandardDeviation(strengths), ToRoot(MeanOf(strengths))),
          ToRoot(Rat(100, 1)))

\* coefficientOfVariation of calculatePullOffBatch: from the loads in kN
coefficientOfVariationOf(loadsKN, strengths) ==
  RootMul(RootDiv(calculateStandardDeviation(loadsKN), ToRoot(MeanOf(loadsKN))),
          ToRoot(Rat(100, 1)))

calculatePullOffBatch(specimens) ==
  LET Summarised(results, strengths, diameters, loadsKN, loadsN) ==
        LET Reported(uncertainty) ==
              [results |-> results,
               averageStrength |-> MeanOf(strengths),
               averageLoadKN |-> MeanOf(loadsKN),
               minimumStrength |-> MathMin(strengths),
               maximumStrength |-> MathMax(strengths),
               standardDeviation |-> calculateStandardDeviation(strengths),
               coefficientOfVariation |-> coefficientOfVariationOf(loadsKN, strengths),
               uncertainty |-> uncertainty,
               expandedUncertaintyMPa |-> uncertainty.expandedUncertainty]
        IN  Reported(calculatePullOffUncertainty(results, diameters, loadsN))
      Mapped(results) ==
        Summarised(results,
                   [i \in DOMAIN results |-> results[i].tensileStrengthMPa],
                   [i \in DOMAIN specimens |-> specimens[i].diameterMm],
                   [i \in DOMAIN specimens |-> specimens[i].failureLoadKN],
                   [i \in DOMAIN specimens |-> RMul(specimens[i].failureLoadKN, Rat(1000, 1))])
  IN  Mapped([i \in DOMAIN specimens |-> calculatePullOffSample(specimens[i])])

\* ------------------------------------------------------------------------
\* The pull-off batch in the doubles of the runtime: the same statements with
\* every product, quotient and sum rounded to the nearest double.  The fields
\* behind Math.pow and Math.sqrt (the deviations and the uncertainty budget)
\* are those of calculatePullOffBatch above and are not repeated here.
\* ------------------------------------------------------------------------
\* Math.PI * radius * radius, from the left
calculateCircularArea_double(diameterMm) ==
  LET Area(radius) == ToDouble(RMul(ToDouble(RMul(MathPI_double, radius)), radius))
  IN  Area(ToDouble(RDiv(diameterMm, Rat(2, 1))))

calculateTensileStrength_double(loadN, diameterMm) ==
  ToDouble(RDiv(loadN, calculateCircularArea_double(diameterMm)))

calculatePullOffSample_double(input) ==
  LET Converted(failureLoadN) ==
        [specimenNumber |-> input.specimenNumber,
         specimenCode |-> input.specimenCode,
         testedItem |-> input.testedItem,
         diameterMm |-> input.diameterMm,
         failureMode |-> input.failureMode,
         failureLoadKN |-> input.failureLoadKN,
         failureLoadN |-> failureLoadN,
         areaMm2 |-> calculateCircularArea_double(input.diameterMm),
         tensileStrengthMPa |-> calculateTensileStrength_double(failureLoadN, input.diameterMm)]
  IN  Converted(ToDouble(RMul(input.failureLoadKN, Rat(1000, 1))))

\* xs.reduce((a, b) => a + b, 0): the sum from the left, rounded at each step
RECURSIVE RSum_double(_, _, _)
RSum_double(xs, i, sum) ==
  IF i > Len(xs) THEN sum ELSE RSum_double(xs, i + 1, ToDouble(RAdd(sum, xs[i])))

\* xs.reduce((a, b) => a + b, 0) / xs.length
MeanOf_double(xs) == ToDouble(RDiv(RSum_double(xs, 1, RZero), Rat(Len(xs), 1)))

calculatePullOffBatch_double(specimens) ==
  LET Summarised(results, strengths, loadsKN) ==
        [results |-> results,
         averageStrength |-> MeanOf_double(strengths),
         averageLoadKN |-> MeanOf_double(loadsKN),
         minimumStrength |-> MathMin(strengths),
         maximumStrength |-> MathMax(strengths)]
      Mapped(results) ==
        Summarised(results,
                   [i \in DOMAIN results |-> results[i].tensileStrengthMPa],
                   [i \in DOMAIN specimens |-> specimens[i].failureLoadKN])
  IN  Mapped([i \in DOMAIN specimens |-> calculatePullOffSample_double(specimens[i])])

\* ------------------------------------------------------------------------
\* Schmidt hammer test
\* ------------------------------------------------------------------------
\* a number that may be NaN or positive infinity: NaN, Infinity or Defined(x)
NaN == <<>>
isNaN(x) == x = NaN
Infinity == <<1, 0>>

\* a number of a result that is +Infinity: x / 0 for x > 0
PositiveInfinity == [neg |-> FALSE, n |-> <<1>>, d |-> <<>>, pi |-> 0]

\* the numeric keys of DOF_K_TABLE in ascending order, each with its k
Initial_DOF_K_TABLE ==
  <<<<1, Dec2(1397)>>, <<2, Dec2(453)>>, <<3, Dec2(331)>>, <<4, Dec2(287)>>,
    <<5, Dec2(265)>>, <<6, Dec2(252)>>, <<7, Dec2(243)>>, <<8, Dec2(237)>>,
    <<12, Dec2(223)>>, <<14, Dec2(220)>>, <<16, Dec2(217)>>, <<18, Dec2(250)>>,
    <<20, Dec2(213)>>, <<25, Dec2(211)>>, <<30, Dec2(209)>>, <<35, Dec2(207)>>,
    <<40, Dec2(206)>>, <<45, Dec2(206)>>, <<50, Dec2(205)>>, <<60, Dec2(204)>>,
    <<80, Dec2(203)>>, <<100, Dec2(202)>>>>

RECURSIVE KScan(_, _)
KScan(dof, i) ==
  IF i = 0 THEN Rat(2, 1)
  ELSE IF RLe(Rat(DOF_K_TABLE[i][1], 1), dof) THEN DOF_K_TABLE[i][2]
  ELSE KScan(dof, i - 1)

\* dof is NaN, Infinity or Defined(x); every comparison with NaN is false
getKFactor(dof) ==
  IF isNaN(dof) THEN Rat(2, 1)
  ELSE IF dof = Infinity THEN DOF_K_TABLE[Len(DOF_K_TABLE)][2]
  ELSE KScan(dof[1], Len(DOF_K_TABLE))

\* values.sort((a, b) => a - b)
RECURSIVE InsertSorted(_, _, _)
InsertSorted(sorted, v, i) ==
  IF i > Len(sorted) \/ RLt(v, sorted[i])
  THEN SubSeq(sorted, 1, i - 1) \o <<v>> \o SubSeq(sorted, i, Len(sorted))
  ELSE InsertSorted(sorted, v, i + 1)

RECURSIVE SortFrom(_, _, _)
SortFrom(values, i, sorted) ==
  IF i > Len(values) THEN sorted
  ELSE SortFrom(values, i + 1, InsertSorted(sorted, values[i], 1))

SortAscending(values) == SortFrom(values, 1, <<>>)

MedianOfSorted(sorted, mid) ==
  IF Len(sorted) % 2 = 0
  THEN RDiv(RAdd(sorted[mid], sorted[mid + 1]), Rat(2, 1))
  ELSE sorted[mid + 1]

\* the median rounded to an integer
calculateMedianRounded(values) ==
  MathRound(MedianOfSorted(SortAscending(values), Len(values) \div 2))

\* mid is the 0-based index Math.floor(sorted.length / 2)
calculateMedian(values) == MedianOfSorted(SortAscending(values), Len(values) \div 2)

calculateAnvilCorrectionFactor(anvilInput) ==
  LET Factor(median) ==
        [rsa |-> IF REq(median, RZero) THEN PositiveInfinity
                 ELSE RDiv(Rat(80, 1), median),
         median |-> median]
  IN  Factor(calculateMedian(anvilInput.readingsBefore \o anvilInput.readingsAfter))

\* Math.sqrt of the variance with the divisor n - 1; one value gives 0 / 0
standardDeviationOf(values) ==
  IF Len(values) < 2 THEN NaN
  ELSE MathSqrt(RDiv(SumSquaredDiffs(values, MeanOf(values), 1, RZero),
                     Rat(Len(values) - 1, 1)))

\* the repeatability uncertainty of the pull-off budget: sd / sqrt(3)
repeatabilityUncertaintyOverRoot3(sd, n) == RootDiv(sd, MathSqrt(Rat(3, 1)))

\* repeatabilityUncertainty of calculateSchmidtHammerUncertainty
repeatabilityUncertaintyOf(sd, n) == MathSqrt(RDiv(RootSquare(sd), Rat(n, 1)))

\* dof of calculateSchmidtHammerUncertainty for n >= 2: the rounded
\* Welch-Satterthwaite quotient, infinite when the readings do not vary
effectiveDofOf(combinedUncertainty, repeatabilityUncertainty, n) ==
  IF RootIsZero(repeatabilityUncertainty) THEN Infinity
  ELSE Defined(MathRound(RDiv(Square(RootSquare(combinedUncertainty)),
                              RDiv(Square(RootSquare(repeatabilityUncertainty)),
                                   Rat(n - 1, 1)))))

\* the coverage factor looked up in the table of degrees of freedom
coverageFactorFromTable(dof) == getKFactor(dof)

\* coverageFactor of calculateSchmidtHammerUncertainty; dof is not read
coverageFactorOf(dof) == Rat(2, 1)

\* for one reading the variance is 0 / 0, and for readings that are Infinity
\* it is a sum of NaN
calculateSchmidtHammerUncertainty(correctedReadings) ==
  IF \/ Len(correctedReadings) < 2
     \/ \E i \in DOMAIN correctedReadings : correctedReadings[i] = PositiveInfinity
  THEN [repeatabilityUncertainty |-> NaN,
        resolutionUncertainty |-> RootDiv(ToRoot(ROne), MathSqrt(Rat(3, 1))),
        calibrationUncertainty |-> RDiv(Rat(266, 10000), Rat(2, 1)),
        combinedUncertainty |-> NaN,
        coverageFactor |-> coverageFactorOf(NaN),
        expandedUncertainty |-> NaN]
  ELSE LET Budget(repeatabilityUncertainty, resolutionUncertainty, calibrationUncertainty) ==
             LET Combined(combinedUncertainty) ==
                   LET Covered(coverageFactor) ==
                         [repeatabilityUncertainty |-> repeatabilityUncertainty,
                          resolutionUncertainty |-> resolutionUncertainty,
                          calibrationUncertainty |-> calibrationUncertainty,
                          combinedUncertainty |-> combinedUncertainty,
                          coverageFactor |-> coverageFactor,
                          expandedUncertainty |-> RootMul(ToRoot(coverageFactor),
                                                          combinedUncertainty)]
                   IN  Covered(coverageFactorOf(
                                 effectiveDofOf(combinedUncertainty,
                                                repeatabilityUncertainty,
                                                Len(correctedReadings))))
             IN  Combined(MathSqrt(RAdd(RAdd(RootSquare(repeatabilityUncertainty),
                                             RootSquare(resolutionUncertainty)),
                                        Square(calibrationUncertainty))))
       IN  Budget(repeatabilityUncertaintyOf(standardDeviationOf(correctedReadings),
                                             Len(correctedReadings)),
                  RootDiv(ToRoot(ROne), MathSqrt(Rat(3, 1))),
                  RDiv(Rat(266, 10000), Rat(2, 1)))

\* the median of the corrected readings, not rounded
medianReboundUnrounded(correctedReadings) == calculateMedian(correctedReadings)

\* the array handed to calculateMedian, sorted where it stands
valuesSortedInPlace(values) == SortAscending(values)

\* the array handed to calculateMedian after the call: [...values].sort(...)
\* sorts a copy, the array itself keeps its order
valuesAfterCalculateMedian(values) == values

\* medianRebound of calculateSchmidtHammerElement
medianReboundOf(correctedReadings) == MathRound(calculateMedian(correctedReadings))

\* calculateSchmidtHammerElement for rsa = Infinity and readings above 0:
\* every corrected reading, the median and the limits are Infinity, and the
\* deviations from the mean are Infinity - Infinity, which is NaN
calculateSchmidtHammerElementAtInfinity(element) ==
  [elementName |-> element.elementName,
   elementCode |-> element.elementCode,
   hammerDirection |-> element.hammerDirection,
   originalReadings |-> element.readings,
   correctedReadings |-> [i \in DOMAIN element.readings |-> PositiveInfinity],
   medianRebound |-> PositiveInfinity,
   lowerLimit |-> PositiveInfinity,
   upperLimit |-> PositiveInfinity,
   validReadingsCount |-> Len(element.readings),
   standardDeviation |-> NaN,
   uncertainty |->
     calculateSchmidtHammerUncertainty([i \in DOMAIN element.readings |-> PositiveInfinity]),
   expandedUncertainty |-> NaN,
   approximateStrengthKgCm2 |-> PositiveInfinity,
   notes |-> element.notes]

calculateSchmidtHammerElement(element, rsa) ==
  IF rsa = PositiveInfinity THEN calculateSchmidtHammerElementAtInfinity(element) ELSE
  LET Corrected(correctedReadings) ==
        LET Limited(medianRebound) ==
              LET Assessed(lowerLimit, upperLimit, uncertainty) ==
                    [elementName |-> element.elementName,
                     elementCode |-> element.elementCode,
                     hammerDirection |-> element.hammerDirection,
                     originalReadings |-> element.readings,
                     correctedReadings |-> correctedReadings,
                     medianRebound |-> medianRebound,
                     lowerLimit |-> lowerLimit,
                     upperLimit |-> upperLimit,
                     validReadingsCount |->
                       Cardinality({i \in DOMAIN correctedReadings :
                                      /\ RLe(lowerLimit, correctedReadings[i])
                                      /\ RLe(correctedReadings[i], upperLimit)}),
                     standardDeviation |-> standardDeviationOf(correctedReadings),
                     uncertainty |-> uncertainty,
                     expandedUncertainty |-> uncertainty.expandedUncertainty,
                     approximateStrengthKgCm2 |-> RMul(medianRebound, Rat(115, 10)),
                     notes |-> element.notes]
              IN  Assessed(RMul(medianRebound, Rat(75, 100)),
                           RMul(medianRebound, Rat(125, 100)),
                           calculateSchmidtHammerUncertainty(correctedReadings))
        IN  Limited(medianReboundOf(correctedReadings))
  IN  Corrected(valuesAfterCalculateMedian(
                  [i \in DOMAIN element.readings |-> RMul(element.readings[i], rsa)]))

\* the results in the opposite order of the elements
elementResultsReversed(elements, rsa) ==
  [i \in DOMAIN elements |->
     calculateSchmidtHammerElement(elements[Len(elements) + 1 - i], rsa)]

\* results of calculateSchmidtHammerBatch: input.elements.map(...) with the
\* one correction factor of the batch
elementResultsOf(elements, rsa) ==
  [i \in DOMAIN elements |-> calculateSchmidtHammerElement(elements[i], rsa)]

calculateSchmidtHammerBatch(input) ==
  LET Calibrated(anvil) ==
        [results |-> elementResultsOf(input.elements, anvil.rsa),
         correctionFactorRSA |-> anvil.rsa,
         anvilMedian |-> anvil.median,
         hammerCode |-> input.hammerCode,
         testingDate |-> input.testingDate]
  IN  Calibrated(calculateAnvilCorrectionFactor(input.anvilCalibration))

\* ------------------------------------------------------------------------
\* The calculator with the density input (src/unnamed/part_002)
\* ------------------------------------------------------------------------
\* calculatedDensity: from the weight when it is given and not 0, else the
\* density when it is given and not 0, else 2.4
calculatedDensity_density(input, averageDiameter, averageLength) ==
  IF input.weightGrams # Undefined /\ ~REq(input.weightGrams[1], RZero)
  THEN calculateDensity(input.weightGrams[1], averageDiameter, averageLength)
  ELSE IF input.density # Undefined /\ ~REq(input.density[1], RZero)
  THEN input.density[1]
  ELSE Rat(24, 10)

\* densityForFormula = input.density ?? calculatedDensity
densityForFormula(input, calculatedDensity) ==
  IF input.density # Undefined THEN input.density[1] ELSE calculatedDensity

calculateCoreSample_density(input) ==
  LET Averaged(averageDiameter, averageLength, breakingLoadTons) ==
        LET Measured(calculatedDensity, coreStrength) ==
              LET Corrected(moistureCorrectionFactor, cuttingCorrectionFactor,
                            reinforcementCorrectionFactor, densityFactor) ==
                    LET Result(equivalentCubeStrength) ==
                          [averageDiameter |-> averageDiameter,
                           averageLength |-> averageLength,
                           ldRatio |-> RDiv(averageLength, averageDiameter),
                           calculatedDensity |-> calculatedDensity,
                           breakingLoadTons |-> breakingLoadTons,
                           coreStrength |-> coreStrength,
                           moistureCorrectionFactor |-> moistureCorrectionFactor,
                           cuttingCorrectionFactor |-> cuttingCorrectionFactor,
                           ldCorrectionFactor |->
                             calculateLDCorrectionFactor(RDiv(averageLength, averageDiameter)),
                           reinforcementCorrectionFactor |-> reinforcementCorrectionFactor,
                           equivalentCubeStrength |-> equivalentCubeStrength,
                           equivalentCubeStrengthMPa |->
                             RMul(equivalentCubeStrength, Rat(980665, 10000000))]
                    IN  Result(RMul(RMul(RMul(RMul(coreStrength, moistureCorrectionFactor),
                                              cuttingCorrectionFactor),
                                         densityFactor),
                                    reinforcementCorrectionFactor))
              IN  Corrected(
                    getMoistureCorrectionFactor(input.aggregateCondition),
                    calculateFgCorrectionFactor_density(averageDiameter,
                                                        coreStrengthToMPaExact(coreStrength)),
                    calculateReinforcementCorrectionFactor(input.reinforcement,
                                                           averageDiameter, averageLength),
                    RDiv(densityForFormula(input, calculatedDensity),
                         RAdd(Rat(15, 10), RDiv(averageDiameter, averageLength))))
        IN  Measured(calculatedDensity_density(input, averageDiameter, averageLength),
                     calculateCoreStrength(breakingLoadTons, averageDiameter))
  IN  Averaged(RDiv(RSum(input.diameters, 1, RZero), Rat(Len(input.diameters), 1)),
               RDiv(RSum(input.lengths, 1, RZero), Rat(Len(input.lengths), 1)),
               convertKNtoTons(input.breakingLoadKN))

calculateBatch_density(samples) ==
  LET Summarised(results, strengths) ==
        LET Deviating(averageStrength) ==
              [results |-> results,
               averageStrength |-> averageStrength,
               minimumStrength |-> MathMin(strengths),
               maximumStrength |-> MathMax(strengths),
               standardDeviation |-> MathSqrt(varianceOf(strengths, averageStrength))]
        IN  Deviating(MeanOf(strengths))
      Mapped(results) == Summarised(results, strengthsOf(results))
  IN  Mapped([i \in DOMAIN samples |-> calculateCoreSample_density(samples[i])])

\* ------------------------------------------------------------------------
\* Batch routes and their validators
\* ------------------------------------------------------------------------
\* A value of a parsed JSON body, with what typeof and Array.isArray say of
\* it: a number, a string, an array of values, an object with its fields (an
\* absent field is Absent), null, or undefined.
Num(x) == [type |-> "number", value |-> x]
Str(s) == [type |-> "string", value |-> s]
Arr(items) == [type |-> "array", items |-> items]
Obj(fields) == [type |-> "object", fields |-> fields]
Null == [type |-> "null"]
Absent == [type |-> "undefined"]

\* typeof v === 'number' && v > 0
IsPositiveNumber(v) == v.type = "number" /\ RLt(RZero, v.value)

\* typeof v !== 'number' || v <= 0
NotPositiveNumber(v) == v.type # "number" \/ RLe(v.value, RZero)

\* typeof v !== 'number'
NotNumber(v) == v.type # "number"

\* typeof v !== 'number' || v < 0
NotNonNegativeNumber(v) == v.type # "number" \/ RLt(v.value, RZero)

Thrown(message) == [threw |-> TRUE, message |-> message]
Returned(value) == [threw |-> FALSE, value |-> value]

\* an optional number of the body as the engine reads it
OptionalNumber(v) == IF v.type = "undefined" THEN Undefined ELSE Defined(v.value)

\* the numbers of an array of numbers
NumbersOf(v) == [i \in DOMAIN v.items |-> v.items[i].value]

\* the message of the check of one bar in validateCoreSampleInput, "" when
\* the bar passes
BarError(bar) ==
  IF bar.type # "object" THEN "Each reinforcement entry must be an object"
  ELSE IF NotPositiveNumber(bar.fields.diameterMm)
  THEN "reinforcement diameterMm must be a positive number"
  ELSE IF NotNonNegativeNumber(bar.fields.distanceFromEndMm)
  THEN "reinforcement distanceFromEndMm must be a non-negative number"
  ELSE ""

\* the message of the first bar that fails its check, "" when none does
ReinforcementError(v) ==
  IF v.type = "undefined" THEN ""
  ELSE IF v.type # "array" THEN "reinforcement must be an array"
  ELSE LET failing == {i \in DOMAIN v.items : BarError(v.items[i]) # ""}
       IN  IF failing = {} THEN ""
           ELSE BarError(v.items[CHOOSE i \in failing : \A j \in failing : i <= j])

\* the bars of the body as the engine reads them
ReinforcementOf(v) ==
  IF v.type = "undefined" THEN Undefined
  ELSE Defined([i \in DOMAIN v.items |->
                  [diameterMm |-> v.items[i].fields.diameterMm.value,
                   distanceFromEndMm |-> v.items[i].fields.distanceFromEndMm.value]])

\* validateCoreSampleInput of an object: the checks in their order
validateCoreSampleFields(data) ==
  IF data.diameters.type # "array" \/ Len(data.diameters.items) # 2
  THEN Thrown("diameters must be an array of exactly 2 numbers")
  ELSE IF \E i \in DOMAIN data.diameters.items : ~IsPositiveNumber(data.diameters.items[i])
  THEN Thrown("All diameter values must be positive numbers")
  ELSE IF \/ data.lengths.type # "array"
          \/ Len(data.lengths.items) < 2
          \/ Len(data.lengths.items) > 3
  THEN Thrown("lengths must be an array of 2-3 numbers")
  ELSE IF \E i \in DOMAIN data.lengths.items : ~IsPositiveNumber(data.lengths.items[i])
  THEN Thrown("All length values must be positive numbers")
  ELSE IF NotPositiveNumber(data.breakingLoadKN)
  THEN Thrown("breakingLoadKN must be a positive number (load in kN)")
  ELSE IF NotPositiveNumber(data.directionFactor)
  THEN Thrown("directionFactor is required and must be a positive number")
  ELSE IF data.weightGrams.type # "undefined" /\ NotPositiveNumber(data.weightGrams)
  THEN Thrown("weightGrams must be a positive number if provided")
  ELSE IF ~(/\ data.aggregateCondition.type = "string"
            /\ data.aggregateCondition.value \in {"dry", "natural", "saturated"})
  THEN Thrown("aggregateCondition must be one of: dry, natural, saturated")
  ELSE IF ReinforcementError(data.reinforcement) # ""
  THEN Thrown(ReinforcementError(data.reinforcement))
  ELSE Returned([diameters |-> NumbersOf(data.diameters),
                 lengths |-> NumbersOf(data.lengths),
                 breakingLoadKN |-> data.breakingLoadKN.value,
                 directionFactor |-> data.directionFactor.value,
                 aggregateCondition |-> data.aggregateCondition.value,
                 weightGrams |-> OptionalNumber(data.weightGrams),
                 reinforcement |-> ReinforcementOf(data.reinforcement)])

validateCoreSampleInput(input) ==
  IF input.type # "object" THEN Thrown("Input must be an object")
  ELSE validateCoreSampleFields(input.fields)

validatePullOffSampleInput(input) ==
  IF input.type # "object" THEN Thrown("Input must be an object")
  ELSE IF NotPositiveNumber(input.fields.diameterMm)
  THEN Thrown("diameterMm must be a positive number")
  ELSE IF NotPositiveNumber(input.fields.failureLoadKN)
  THEN Thrown("failureLoadKN must be a positive number")
  ELSE Returned([specimenNumber |-> Undefined,
                 specimenCode |-> Undefined,
                 testedItem |-> Undefined,
                 diameterMm |-> input.fields.diameterMm.value,
                 failureMode |-> Undefined,
                 failureLoadKN |-> input.fields.failureLoadKN.value])

\* the items at which Array.map's callback threw
Throwing(validated) == {i \in DOMAIN validated : validated[i].threw}

\* the array check of the batch routes that also refuses one item
BatchRefusedBelowTwo(items) == items.type # "array" \/ Len(items.items) < 2

\* !Array.isArray(items) || items.length === 0
BatchRefused(items) == items.type # "array" \/ Len(items.items) = 0

\* res.status(400).json(...) of the catch block
BadRequest(details) ==
  [status |-> 400, body |-> [error |-> "Invalid input", details |-> details]]

\* What a batch route does with the array of its body: the response, and the
\* engine calls made on the way. Array.map stops at the first item whose
\* validation throws, and the engine is called after map has returned:
\* calculated is what the engine returns for the validated items.
BatchRoute(items, required, validated, engine, calculated) ==
  IF BatchRefused(items)
  THEN [response |-> BadRequest(required), calls |-> <<>>]
  ELSE IF Throwing(validated) # {}
  THEN [response |->
          BadRequest(validated[CHOOSE i \in Throwing(validated) :
                                 \A j \in Throwing(validated) : i <= j].message),
        calls |-> <<>>]
  ELSE [response |->
          [status |-> 200, body |-> calculated],
        calls |-> <<[fn |-> engine,
                     args |-> <<[i \in DOMAIN validated |-> validated[i].value]>>]>>]

\* router.post('/calculate/batch', ...)
PostCalculateBatch(body) ==
  BatchRoute(body.samples, "samples array is required and must not be empty",
             IF body.samples.type = "array"
             THEN [i \in DOMAIN body.samples.items |->
                     validateCoreSampleInput(body.samples.items[i])]
             ELSE <<>>,
             "calculateBatch",
             calculateBatch([i \in DOMAIN body.samples.items |->
                               validateCoreSampleInput(body.samples.items[i]).value]))

\* router.post('/pulloff/calculate/batch', ...)
PostPullOffCalculateBatch(body) ==
  BatchRoute(body.specimens, "specimens array is required and must not be empty",
             IF body.specimens.type = "array"
             THEN [i \in DOMAIN body.specimens.items |->
                     validatePullOffSampleInput(body.specimens.items[i])]
             ELSE <<>>,
             "calculatePullOffBatch",
             calculatePullOffBatch([i \in DOMAIN body.specimens.items |->
                                      validatePullOffSampleInput(body.specimens.items[i]).value]))

\* ------------------------------------------------------------------------
\* The tables handed to callers
\* ------------------------------------------------------------------------
\* A slot of a returned array or object holds either one of the module's own
\* objects (the row array of FG_TABLE with that key, the entry of a table
\* with that index), which the caller then shares with the module, or a
\* value of the caller's.
Shared(key) == [ref |-> key]
Own(value) == [own |-> value]

\* { diameters: [...FG_DIAMETER_POINTS], strengths: [...FG_STRENGTH_POINTS],
\*   table: { ...FG_TABLE } }: the two arrays of numbers are copied, the
\* object of rows is copied with the row arrays themselves as its values
getFgCorrectionTable ==
  [diameters |-> FG_DIAMETER_POINTS,
   strengths |-> FG_STRENGTH_POINTS,
   table |-> [d \in DOMAIN FG_TABLE |-> Shared(d)]]

\* [...LD_CORRECTION_TABLE]: a new array of the same entry objects
getLDCorrectionTable == [i \in DOMAIN LD_CORRECTION_TABLE |-> Shared(i)]

\* [...MOISTURE_CORRECTION_TABLE]: a new array of the same entry objects
getMoistureCorrectionTable == [i \in DOMAIN MOISTURE_CORRECTION_TABLE |-> Shared(i)]

\* the table after a lookup that scales the ratios of its entries in place
LDTableScaledInPlace(table) ==
  [i \in DOMAIN table |-> [table[i] EXCEPT !.ldRatio = RMul(@, Rat(10, 1))]]

\* LD_CORRECTION_TABLE after calculateLDCorrectionFactor: the loop reads
\* lower.ldRatio * 10 and upper.ldRatio * 10 into locals and assigns to no
\* entry
LDTableAfterLookup(table) == table

\* ------------------------------------------------------------------------
\* Inputs
\* ------------------------------------------------------------------------
MaxDiameterStep == 13
MaxStrengthStep == 16
MaxLdStep == 16
MaxBars == 2

\* diameters in mm: every 12.5 mm from 37.5 up (the standard diameters and the
\* midpoints between them), and the cores of the README (93, 68)
DiameterInputs ==
  {Rat(25 * k, 2) : k \in 3..MaxDiameterStep} \cup {Rat(93, 1), Rat(68, 1), Rat(1, 1)}

\* strengths in MPa: every 2.5 MPa from 0 up, and 20.95 (the README's first core)
StrengthInputs ==
  {Rat(5 * k, 2) : k \in 0..MaxStrengthStep} \cup {Rat(2095, 100)}

\* L/D ratios: every quarter from 0.5 up, and two thirds-valued ratios
LdInputs == {Rat(k, 4) : k \in 2..MaxLdStep} \cup {Rat(4, 3), Rat(7, 3)}

ConditionInputs == {"dry", "natural", "saturated"}

Bar(diameterMm, distanceFromEndMm) ==
  [diameterMm |-> Rat(diameterMm, 1), distanceFromEndMm |-> Rat(distanceFromEndMm, 1)]

\* validated bars: diameter > 0, distance from the end >= 0
BarInputs == {Bar(10, 50), Bar(12, 60), Bar(8, 0), Bar(10, 0)}

SeqsUpTo(S, n) == UNION {[1..k -> S] : k \in 0..n}

\* the optional bar list: absent, empty, or up to MaxBars bars
ReinforcementInputs ==
  {Undefined} \cup {Defined(bars) : bars \in SeqsUpTo(BarInputs, MaxBars)}

\* (diameter, length) pairs of a core, mm
CoreSizeInputs ==
  {<<Rat(93, 1), Rat(121, 1)>>, <<Rat(100, 1), Rat(200, 1)>>, <<Rat(75, 1), Rat(364, 3)>>}

\* a path parameter after parseFloat: NaN, or the number it denotes
RouteDiameterInputs ==
  {NaN} \cup {Defined(Rat(d, 1)) : d \in {-50, 0, 1, 93, 100, 500}}

RouteStrengthInputs ==
  {NaN} \cup {Defined(Rat(x, 2)) : x \in {-2, 0, 20, 45, 70, 120}}

Rats(xs) == [i \in DOMAIN xs |-> Rat(xs[i], 1)]

\* a sample of the reference sheet as the test file gives it, without the
\* slot for the density or direction factor
ExcelSample(lengths, weightGrams, breakingLoadKN, reinforcement) ==
  [diameters |-> Rats(<<93, 93>>),
   lengths |-> Rats(lengths),
   weightGrams |-> Defined(Rat(weightGrams, 1)),
   breakingLoadKN |-> breakingLoadKN,
   aggregateCondition |-> "dry",
   reinforcement |-> reinforcement]

\* samples 1 to 3 of the test file
ExcelSamples ==
  <<ExcelSample(<<122, 120, 122>>, 1835, Rat(684, 10), Undefined),
    ExcelSample(<<116, 116, 115>>, 1770, Rat(636, 10), Defined(<<Bar(8, 43)>>)),
    ExcelSample(<<112, 114, 113>>, 1433, Rat(328, 10), Undefined)>>

\* the samples with density: 2.5, the input of the density calculator
ExcelSamples_density ==
  [i \in DOMAIN ExcelSamples |-> ExcelSamples[i] @@ [density |-> Defined(Rat(25, 10))]]

\* the samples with directionFactor: 2.5
ExcelSamples_directionFactor ==
  [i \in DOMAIN ExcelSamples |-> ExcelSamples[i] @@ [directionFactor |-> Rat(25, 10)]]

SampleInputs ==
  [diameters : {Rats(<<93, 93>>), Rats(<<100, 100>>), Rats(<<74, 76>>)},
   lengths : {Rats(<<200, 200>>), Rats(<<121, 121, 121>>)},
   breakingLoadKN : {Rat(684, 10), Rat(14232, 100), Rat(300, 1)},
   directionFactor : {Rat(23, 10), Rat(25, 10)},
   aggregateCondition : ConditionInputs,
   weightGrams : {Undefined, Defined(Rat(1835, 1))},
   reinforcement : {Undefined, Defined(<<>>), Defined(<<Bar(10, 50)>>)}]
  \cup {ExcelSamples_directionFactor[i] : i \in DOMAIN ExcelSamples_directionFactor}

MaxBatch == 2

\* a validated core sample without weight and bars
BatchSample(lengthMm, breakingLoadKN) ==
  [diameters |-> Rats(<<93, 93>>),
   lengths |-> Rats(<<lengthMm, lengthMm, lengthMm>>),
   breakingLoadKN |-> breakingLoadKN,
   directionFactor |-> Rat(25, 10),
   aggregateCondition |-> "saturated",
   weightGrams |-> Undefined,
   reinforcement |-> Undefined]

\* the two cores of the README batch example, and a third weaker core
BatchSampleInputs ==
  {BatchSample(121, Rat(14232, 100)), BatchSample(122, Rat(11478, 100)),
   BatchSample(121, Rat(684, 10))}

NonEmptySeqsUpTo(S, n) == UNION {[1..k -> S] : k \in 1..n}

\* the sample arrays the batch route accepts: not empty
BatchInputs == NonEmptySeqsUpTo(BatchSampleInputs, MaxBatch) \cup {ExcelSamples_directionFactor}

MaxSpecimens == 2

\* a validated pull-off specimen: diameter > 0 mm, failure load > 0 kN
Specimen(diameterMm, failureLoadKN) ==
  [specimenNumber |-> Undefined,
   specimenCode |-> Undefined,
   testedItem |-> Undefined,
   diameterMm |-> diameterMm,
   failureMode |-> Undefined,
   failureLoadKN |-> failureLoadKN]

SpecimenInputs ==
  {Specimen(Rat(50, 1), Rat(31, 10)), Specimen(Rat(50, 1), Rat(25, 10)),
   Specimen(Rat(48, 1), Rat(31, 10)), Specimen(Rat(495, 10), Rat(36, 10))}

\* the specimen arrays the pull-off batch route accepts: not empty
PullOffBatchInputs == NonEmptySeqsUpTo(SpecimenInputs, MaxSpecimens)

MaxSpecimens_double == 3

\* a specimen as the JSON parser hands it over: the doubles nearest to the
\* decimal numbers of the request, given here in tenths
Specimen_double(diameterTenths, failureLoadTenths) ==
  Specimen(ToDouble(Rat(diameterTenths, 10)), ToDouble(Rat(failureLoadTenths, 10)))

SpecimenInputs_double == {Specimen_double(405, 69), Specimen_double(495, 36)}

PullOffBatchInputs_double == NonEmptySeqsUpTo(SpecimenInputs_double, MaxSpecimens_double)

MaxAnvilReadings == 2

AnvilReadingInputs == {Rat(79, 1), Rat(82, 1)}

\* the anvil calibration of the reference sheet, five readings before and
\* five after the test
ReferenceAnvil ==
  [readingsBefore |-> Rats(<<81, 83, 84, 84, 83>>),
   readingsAfter |-> Rats(<<80, 80, 82, 82, 81>>)]

\* an anvil calibration of five readings before and five after the test that
\* are all 0
ZeroAnvil ==
  [readingsBefore |-> Rats(<<0, 0, 0, 0, 0>>),
   readingsAfter |-> Rats(<<0, 0, 0, 0, 0>>)]

AnvilInputs ==
  {ReferenceAnvil, ZeroAnvil} \cup
  [readingsBefore : NonEmptySeqsUpTo(AnvilReadingInputs, MaxAnvilReadings),
   readingsAfter : NonEmptySeqsUpTo(AnvilReadingInputs, MaxAnvilReadings)]

MaxReadings == 3

ReadingInputs == {Rat(32, 1), Rat(42, 1), Rat(43, 1), Rat(50, 1)}

\* an element with its readings; the descriptive fields are left out
Element(readings) ==
  [elementName |-> Undefined,
   elementCode |-> Undefined,
   hammerDirection |-> Undefined,
   readings |-> readings,
   notes |-> Undefined]

\* nine readings that vary, and nine that are equal
NineReadings == Rats(<<32, 42, 43, 50, 42, 43, 32, 50, 42>>)
NineEqualReadings == Rats(<<42, 42, 42, 42, 42, 42, 42, 42, 42>>)

\* every list of up to MaxReadings readings, two lists of four whose median
\* lies halfway between two integers, and the two lists of nine
ElementInputs ==
  {Element(r) : r \in NonEmptySeqsUpTo(ReadingInputs, MaxReadings)
                       \cup {Rats(<<32, 42, 43, 50>>), Rats(<<50, 43, 32, 42>>),
                             NineReadings, NineEqualReadings}}

\* the correction factors of an anvil median of 80 and of 82
RsaInputs == {Rat(80, 80), Rat(80, 82)}

MaxElements == 2

\* the elements of a batch: three readings, four readings and nine readings
BatchElementInputs ==
  {Element(Rats(<<32, 42, 43>>)), Element(Rats(<<32, 42, 43, 50>>)),
   Element(NineReadings)}

\* a batch of elements with its anvil calibration: the reference anvil
\* (median 82), a pair of readings with median 80.5, or the anvil readings
\* that are all 0
SchmidtBatchInputs ==
  [elements : NonEmptySeqsUpTo(BatchElementInputs, MaxElements),
   anvilCalibration : {ReferenceAnvil, ZeroAnvil,
                       [readingsBefore |-> Rats(<<79>>), readingsAfter |-> Rats(<<82>>)]},
   hammerCode : {Undefined},
   testingDate : {Undefined}]

MaxRouteBatch == 2

Nums(xs) == Arr([i \in DOMAIN xs |-> Num(Rat(xs[i], 1))])

\* a core sample of a request body
RawSample(diameters, lengths, breakingLoadKN, directionFactor, weightGrams, aggregateCondition, reinforcement) ==
  Obj([diameters |-> diameters,
       lengths |-> lengths,
       breakingLoadKN |-> breakingLoadKN,
       directionFactor |-> directionFactor,
       weightGrams |-> weightGrams,
       aggregateCondition |-> aggregateCondition,
       reinforcement |-> reinforcement])

RawBar(diameterMm, distanceFromEndMm) ==
  Obj([diameterMm |-> Num(Rat(diameterMm, 1)),
       distanceFromEndMm |-> Num(Rat(distanceFromEndMm, 1))])

\* the first core of the README batch example, with other bars
RawSampleWithBars(reinforcement) ==
  RawSample(Nums(<<93, 93>>), Nums(<<121, 121, 121>>), Num(Rat(14232, 100)),
            Num(Rat(25, 10)), Absent, Str("saturated"), reinforcement)

\* items that pass validateCoreSampleInput: the two cores of the README
\* batch example, and the first with a bar at the end of the core
ValidRawSamples ==
  {RawSampleWithBars(Absent),
   RawSample(Nums(<<93, 93>>), Nums(<<122, 122, 122>>), Num(Rat(11478, 100)),
             Num(Rat(25, 10)), Absent, Str("saturated"), Absent),
   RawSampleWithBars(Arr(<<RawBar(8, 0)>>))}

\* items that fail one check of validateCoreSampleInput each
InvalidRawSamples ==
  {Null,
   RawSample(Nums(<<93, 93, 93>>), Nums(<<121, 121, 121>>), Num(Rat(14232, 100)),
             Num(Rat(25, 10)), Absent, Str("saturated"), Absent),
   RawSample(Nums(<<93, 0>>), Nums(<<121, 121, 121>>), Num(Rat(14232, 100)),
             Num(Rat(25, 10)), Absent, Str("saturated"), Absent),
   RawSample(Nums(<<93, 93>>), Nums(<<121>>), Num(Rat(14232, 100)),
             Num(Rat(25, 10)), Absent, Str("saturated"), Absent),
   RawSample(Nums(<<93, 93>>), Nums(<<121, -121>>), Num(Rat(14232, 100)),
             Num(Rat(25, 10)), Absent, Str("saturated"), Absent),
   RawSample(Nums(<<93, 93>>), Nums(<<121, 121, 121>>), Num(RZero),
             Num(Rat(25, 10)), Absent, Str("saturated"), Absent),
   RawSample(Nums(<<93, 93>>), Nums(<<121, 121, 121>>), Num(Rat(14232, 100)),
             Absent, Absent, Str("saturated"), Absent),
   RawSample(Nums(<<93, 93>>), Nums(<<121, 121, 121>>), Num(Rat(14232, 100)),
             Num(Rat(25, 10)), Num(RZero), Str("saturated"), Absent),
   RawSample(Nums(<<93, 93>>), Nums(<<121, 121, 121>>), Num(Rat(14232, 100)),
             Num(Rat(25, 10)), Absent, Str("wet"), Absent),
   RawSampleWithBars(Str("none")),
   RawSampleWithBars(Arr(<<RawBar(8, 0), RawBar(0, 43)>>)),
   RawSampleWithBars(Arr(<<RawBar(8, -1)>>))}

SeqsFromTo(S, m, n) == UNION {[1..k -> S] : k \in m..n}

\* request bodies of POST /calculate/batch: without samples, with samples
\* that are no array, and with an array of up to MaxRouteBatch items
BatchBodies ==
  {[samples |-> v] : v \in {Absent, Str("samples")}} \cup
  {[samples |-> Arr(items)] :
     items \in SeqsFromTo(ValidRawSamples \cup InvalidRawSamples, 0, MaxRouteBatch)}

RawSpecimen(diameterMm, failureLoadKN) ==
  Obj([diameterMm |-> diameterMm, failureLoadKN |-> failureLoadKN])

ValidRawSpecimens ==
  {RawSpecimen(Num(Rat(50, 1)), Num(Rat(31, 10))),
   RawSpecimen(Num(Rat(495, 10)), Num(Rat(36, 10)))}

InvalidRawSpecimens ==
  {Null,
   RawSpecimen(Num(RZero), Num(Rat(31, 10))),
   RawSpecimen(Absent, Num(Rat(31, 10))),
   RawSpecimen(Num(Rat(50, 1)), Num(RNeg(Rat(31, 10)))),
   RawSpecimen(Num(Rat(50, 1)), Str("3.1"))}

\* request bodies of POST /pulloff/calculate/batch
PullOffBatchBodies ==
  {[specimens |-> v] : v \in {Absent, Str("specimens")}} \cup
  {[specimens |-> Arr(items)] :
     items \in SeqsFromTo(ValidRawSpecimens \cup InvalidRawSpecimens, 0, MaxRouteBatch)}

\* ------------------------------------------------------------------------
\* The state machine: one call of an exported function at a time
\* ------------------------------------------------------------------------
\* op, arg and res: the operation in progress, its arguments and what it
\* returns or answers; engineCalls: the calls a route handler has made into
\* the calculation engine while handling the request
VARIABLES op, arg, res, engineCalls
vars == <<op, arg, res, engineCalls, tables>>

Init ==
  /\ op = "idle" /\ arg = <<>> /\ res = <<>> /\ engineCalls = <<>>
  /\ LD_CORRECTION_TABLE = Initial_LD_CORRECTION_TABLE
  /\ MOISTURE_CORRECTION_TABLE = Initial_MOISTURE_CORRECTION_TABLE
  /\ FG_STRENGTH_POINTS = Initial_FG_STRENGTH_POINTS
  /\ FG_DIAMETER_POINTS = Initial_FG_DIAMETER_POINTS
  /\ FG_TABLE = Initial_FG_TABLE
  /\ DOF_K_TABLE = Initial_DOF_K_TABLE

CallRoundToNearestStandardDiameter ==
  /\ op = "idle"
  /\ \E d \in DiameterInputs :
       /\ op' = "roundToNearestStandardDiameter"
       /\ arg' = <<d>>
       /\ res' = roundToNearestStandardDiameter(d)
       /\ engineCalls' = <<>>
  /\ UNCHANGED tables

CallCalculateFgCorrectionFactor ==
  /\ op = "idle"
  /\ \E d \in DiameterInputs, s \in StrengthInputs :
       /\ op' = "calculateFgCorrectionFactor"
       /\ arg' = <<d, s>>
       /\ res' = calculateFgCorrectionFactor(d, s)
       /\ engineCalls' = <<>>
  /\ UNCHANGED tables

CallCalculateFgCorrectionFactor_density ==
  /\ op = "idle"
  /\ \E d \in DiameterInputs, s \in StrengthInputs :
       /\ op' = "calculateFgCorrectionFactor_density"
       /\ arg' = <<d, s>>
       /\ res' = calculateFgCorrectionFactor_density(d, s)
       /\ engineCalls' = <<>>
  /\ UNCHANGED tables

\* router.get('/reference/fg-factor/:diameter/:strength'): the two path
\* parameters after parseFloat, the two validations and the JSON answer
GetReferenceFgFactor ==
  /\ op = "idle"
  /\ \E diameter \in RouteDiameterInputs, strength \in RouteStrengthInputs :
       /\ op' = "GET /reference/fg-factor"
       /\ arg' = <<diameter, strength>>
       /\ res' = IF isNaN(diameter) \/ RLe(diameter[1], RZero)
                 THEN [status |-> 400, body |-> [error |-> "Invalid diameter"]]
                 ELSE IF isNaN(strength) \/ RLt(strength[1], RZero)
                 THEN [status |-> 400, body |-> [error |-> "Invalid strength"]]
                 ELSE [status |-> 200,
                       body |-> [diameter |-> diameter[1],
                                 strengthMPa |-> strength[1],
                                 fg |-> calculateFgCorrectionFactor(diameter[1],
                                                                    strength[1])]]
       /\ engineCalls' = IF isNaN(diameter) \/ RLe(diameter[1], RZero)
                             \/ isNaN(strength) \/ RLt(strength[1], RZero)
                          THEN <<>>
                          ELSE <<[fn |-> "calculateFgCorrectionFactor",
                                  args |-> <<diameter[1], strength[1]>>]>>
  /\ UNCHANGED tables

CallCalculateLDCorrectionFactor ==
  /\ op = "idle"
  /\ \E r \in LdInputs :
       /\ op' = "calculateLDCorrectionFactor"
       /\ arg' = <<r>>
       /\ res' = calculateLDCorrectionFactor(r)
       /\ engineCalls' = <<>>
  /\ LD_CORRECTION_TABLE' = LDTableAfterLookup(LD_CORRECTION_TABLE)
  /\ UNCHANGED <<MOISTURE_CORRECTION_TABLE, FG_STRENGTH_POINTS, FG_DIAMETER_POINTS, FG_TABLE, DOF_K_TABLE>>

CallGetMoistureCorrectionFactor ==
  /\ op = "idle"
  /\ \E c \in ConditionInputs :
       /\ op' = "getMoistureCorrectionFactor"
       /\ arg' = <<c>>
       /\ res' = getMoistureCorrectionFactor(c)
       /\ engineCalls' = <<>>
  /\ UNCHANGED tables

CallCalculateReinforcementCorrectionFactor ==
  /\ op = "idle"
  /\ \E r \in ReinforcementInputs, size \in CoreSizeInputs :
       /\ op' = "calculateReinforcementCorrectionFactor"
       /\ arg' = <<r, size[1], size[2]>>
       /\ res' = calculateReinforcementCorrectionFactor(r, size[1], size[2])
       /\ engineCalls' = <<>>
  /\ UNCHANGED tables

CallCalculateCoreSample ==
  /\ op = "idle"
  /\ \E input \in SampleInputs :
       /\ op' = "calculateCoreSample"
       /\ arg' = <<input>>
       /\ res' = calculateCoreSample(input)
       /\ engineCalls' = <<>>
  /\ UNCHANGED tables

\* calculateCoreSample of the calculator with the density input
CallCalculateCoreSample_density ==
  /\ op = "idle"
  /\ \E i \in DOMAIN ExcelSamples_density :
       /\ op' = "calculateCoreSample_density"
       /\ arg' = <<ExcelSamples_density[i]>>
       /\ res' = calculateCoreSample_density(ExcelSamples_density[i])
       /\ engineCalls' = <<>>
  /\ UNCHANGED tables

\* calculateBatch of the calculator with the density input
CallCalculateBatch_density ==
  /\ op = "idle"
  /\ \E samples \in {ExcelSamples_density, <<ExcelSamples_density[2]>>} :
       /\ op' = "calculateBatch_density"
       /\ arg' = <<samples>>
       /\ res' = calculateBatch_density(samples)
       /\ engineCalls' = <<>>
  /\ UNCHANGED tables

CallCalculateBatch ==
  /\ op = "idle"
  /\ \E samples \in BatchInputs :
       /\ op' = "calculateBatch"
       /\ arg' = <<samples>>
       /\ res' = calculateBatch(samples)
       /\ engineCalls' = <<>>
  /\ UNCHANGED tables

CallCalculatePullOffBatch ==
  /\ op = "idle"
  /\ \E specimens \in PullOffBatchInputs :
       /\ op' = "calculatePullOffBatch"
       /\ arg' = <<specimens>>
       /\ res' = calculatePullOffBatch(specimens)
       /\ engineCalls' = <<>>
  /\ UNCHANGED tables

CallCalculatePullOffBatch_double ==
  /\ op = "idle"
  /\ \E specimens \in PullOffBatchInputs_double :
       /\ op' = "calculatePullOffBatch_double"
       /\ arg' = <<specimens>>
       /\ res' = calculatePullOffBatch_double(specimens)
       /\ engineCalls' = <<>>
  /\ UNCHANGED tables

CallCalculateAnvilCorrectionFactor ==
  /\ op = "idle"
  /\ \E anvilInput \in AnvilInputs :
       /\ op' = "calculateAnvilCorrectionFactor"
       /\ arg' = <<anvilInput>>
       /\ res' = calculateAnvilCorrectionFactor(anvilInput)
       /\ engineCalls' = <<>>
  /\ UNCHANGED tables

CallCalculateSchmidtHammerElement ==
  /\ op = "idle"
  /\ \E element \in ElementInputs, rsa \in RsaInputs :
       /\ op' = "calculateSchmidtHammerElement"
       /\ arg' = <<element, rsa>>
       /\ res' = calculateSchmidtHammerElement(element, rsa)
       /\ engineCalls' = <<>>
  /\ UNCHANGED tables

CallCalculateSchmidtHammerBatch ==
  /\ op = "idle"
  /\ \E input \in SchmidtBatchInputs :
       /\ op' = "calculateSchmidtHammerBatch"
       /\ arg' = <<input>>
       /\ res' = calculateSchmidtHammerBatch(input)
       /\ engineCalls' = <<>>
  /\ UNCHANGED tables

\* router.post('/calculate/batch', ...): the whole handler
PostCalculateBatchRoute ==
  /\ op = "idle"
  /\ \E body \in BatchBodies :
       /\ op' = "POST /calculate/batch"
       /\ arg' = <<body>>
       /\ res' = PostCalculateBatch(body).response
       /\ engineCalls' = PostCalculateBatch(body).calls
  /\ UNCHANGED tables

\* router.post('/pulloff/calculate/batch', ...): the whole handler
PostPullOffCalculateBatchRoute ==
  /\ op = "idle"
  /\ \E body \in PullOffBatchBodies :
       /\ op' = "POST /pulloff/calculate/batch"
       /\ arg' = <<body>>
       /\ res' = PostPullOffCalculateBatch(body).response
       /\ engineCalls' = PostPullOffCalculateBatch(body).calls
  /\ UNCHANGED tables

CallGetFgCorrectionTable ==
  /\ op = "idle"
  /\ op' = "getFgCorrectionTable"
  /\ arg' = <<>>
  /\ res' = getFgCorrectionTable
  /\ engineCalls' = <<>>
  /\ UNCHANGED tables

CallGetLDCorrectionTable ==
  /\ op = "idle"
  /\ op' = "getLDCorrectionTable"
  /\ arg' = <<>>
  /\ res' = getLDCorrectionTable
  /\ engineCalls' = <<>>
  /\ UNCHANGED tables

CallGetMoistureCorrectionTable ==
  /\ op = "idle"
  /\ op' = "getMoistureCorrectionTable"
  /\ arg' = <<>>
  /\ res' = getMoistureCorrectionTable
  /\ engineCalls' = <<>>
  /\ UNCHANGED tables

\* the function returns to its caller
Return ==
  /\ op # "idle" /\ op' = "idle" /\ arg' = <<>> /\ res' = <<>> /\ engineCalls' = <<>>
  /\ UNCHANGED tables

Next ==
  \/ CallRoundToNearestStandardDiameter
  \/ CallCalculateFgCorrectionFactor
  \/ CallCalculateFgCorrectionFactor_density
  \/ GetReferenceFgFactor
  \/ CallCalculateLDCorrectionFactor
  \/ CallGetMoistureCorrectionFactor
  \/ CallCalculateReinforcementCorrectionFactor
  \/ CallCalculateCoreSample
  \/ CallCalculateBatch
  \/ CallCalculatePullOffBatch
  \/ CallCalculateAnvilCorrectionFactor
  \/ CallCalculateSchmidtHammerElement
  \/ CallCalculateSchmidtHammerBatch
  \/ CallGetFgCorrectionTable
  \/ CallGetLDCorrectionTable
  \/ CallGetMoistureCorrectionTable
  \/ Return

Spec == Init /\ [][Next]_vars

\* the calculator of the reference sheet beside the engine's core calculator
NextReference ==
  \/ CallCalculateCoreSample
  \/ CallCalculateBatch
  \/ CallCalculateCoreSample_density
  \/ CallCalculateBatch_density
  \/ Return

SpecReference == Init /\ [][NextReference]_vars

\* the two batch routes of the HTTP layer
NextRoutes ==
  \/ PostCalculateBatchRoute
  \/ PostPullOffCalculateBatchRoute
  \/ Return

SpecRoutes == Init /\ [][NextRoutes]_vars

\* the single-sample computation and the batch statistics over it, in exact
\* arithmetic and in doubles
NextStatistics ==
  \/ CallCalculateCoreSample
  \/ CallCalculateBatch
  \/ CallCalculatePullOffBatch
  \/ CallCalculatePullOffBatch_double
  \/ Return

SpecStatistics == Init /\ [][NextStatistics]_vars

\* ------------------------------------------------------------------------
\* A caller that writes into the tables it was handed
\* ------------------------------------------------------------------------
MaxWrites == 1

\* the number a caller assigns
WrittenValues == {Dec2(200)}

\* the slots of the internal tables that no longer hold their first value
WrittenSlots ==
  Cardinality({k \in (DOMAIN FG_TABLE) \X (1..5) :
                 FG_TABLE[k[1]][k[2]] # Initial_FG_TABLE[k[1]][k[2]]})
  + Cardinality({i \in DOMAIN LD_CORRECTION_TABLE :
                   LD_CORRECTION_TABLE[i] # Initial_LD_CORRECTION_TABLE[i]})
  + Cardinality({i \in DOMAIN MOISTURE_CORRECTION_TABLE :
                   MOISTURE_CORRECTION_TABLE[i] # Initial_MOISTURE_CORRECTION_TABLE[i]})

\* returned.table[d][i] = v: the slot table[d] of the returned object holds
\* the row array of FG_TABLE itself, so the assignment lands in FG_TABLE
CallerWritesFgRow ==
  /\ op = "getFgCorrectionTable"
  /\ WrittenSlots < MaxWrites
  /\ \E d \in DOMAIN res.table, i \in 1..5, v \in WrittenValues :
       /\ res.table[d] = Shared(d)
       /\ FG_TABLE' = [FG_TABLE EXCEPT ![d][i] = v]
  /\ UNCHANGED <<op, arg, res, engineCalls, LD_CORRECTION_TABLE, MOISTURE_CORRECTION_TABLE, FG_STRENGTH_POINTS, FG_DIAMETER_POINTS, DOF_K_TABLE>>

\* returned.diameters[i] = v: the array is a copy, the assignment stays in it
CallerWritesFgDiameters ==
  /\ op = "getFgCorrectionTable"
  /\ \E i \in DOMAIN res.diameters :
       /\ res.diameters[i] = FG_DIAMETER_POINTS[i]
       /\ res' = [res EXCEPT !.diameters[i] = 0]
  /\ UNCHANGED <<op, arg, engineCalls, tables>>

\* returned[i].correctionFactor = v: the slot i of the returned array holds
\* the entry object of LD_CORRECTION_TABLE itself
CallerWritesLDEntry ==
  /\ op = "getLDCorrectionTable"
  /\ WrittenSlots < MaxWrites
  /\ \E i \in DOMAIN res, v \in WrittenValues :
       /\ res[i] = Shared(i)
       /\ LD_CORRECTION_TABLE' = [LD_CORRECTION_TABLE EXCEPT ![i].correctionFactor = v]
  /\ UNCHANGED <<op, arg, res, engineCalls, MOISTURE_CORRECTION_TABLE, FG_STRENGTH_POINTS, FG_DIAMETER_POINTS, FG_TABLE, DOF_K_TABLE>>

\* returned[i] = entry: the returned array is a copy, the new entry stays in it
CallerReplacesLDEntry ==
  /\ op = "getLDCorrectionTable"
  /\ \E i \in DOMAIN res, v \in WrittenValues :
       /\ res[i] = Shared(i)
       /\ res' = [res EXCEPT ![i] = Own([LD_CORRECTION_TABLE[i] EXCEPT !.correctionFactor = v])]
  /\ UNCHANGED <<op, arg, engineCalls, tables>>

\* returned[i].factor = v: the slot i of the returned array holds the entry
\* object of MOISTURE_CORRECTION_TABLE itself
CallerWritesMoistureEntry ==
  /\ op = "getMoistureCorrectionTable"
  /\ WrittenSlots < MaxWrites
  /\ \E i \in DOMAIN res, v \in WrittenValues :
       /\ res[i] = Shared(i)
       /\ MOISTURE_CORRECTION_TABLE' = [MOISTURE_CORRECTION_TABLE EXCEPT ![i].factor = v]
  /\ UNCHANGED <<op, arg, res, engineCalls, LD_CORRECTION_TABLE, FG_STRENGTH_POINTS, FG_DIAMETER_POINTS, FG_TABLE, DOF_K_TABLE>>

CallerWrites ==
  \/ CallerWritesFgRow
  \/ CallerWritesFgDiameters
  \/ CallerWritesLDEntry
  \/ CallerReplacesLDEntry
  \/ CallerWritesMoistureEntry

NextCaller ==
  \/ CallGetFgCorrectionTable
  \/ CallGetLDCorrectionTable
  \/ CallGetMoistureCorrectionTable
  \/ CallerWritesFgRow
  \/ CallerWritesFgDiameters
  \/ CallerWritesLDEntry
  \/ CallerReplacesLDEntry
  \/ CallerWritesMoistureEntry
  \/ CallCalculateFgCorrectionFactor
  \/ CallCalculateLDCorrectionFactor
  \/ CallGetMoistureCorrectionFactor
  \/ Return

SpecCaller == Init /\ [][NextCaller]_vars

\* ------------------------------------------------------------------------
\* Properties
\* ------------------------------------------------------------------------
ClampDiameter(d) == RMax(Rat(50, 1), RMin(Rat(150, 1), d))
ClampStrength(s) == RMax(Rat(15, 1), RMin(Rat(35, 1), s))

\* C1: every result of calculateCoreSample has equivalentCubeStrength =
\* coreStrength x moistureCorrectionFactor x cuttingCorrectionFactor x
\* (directionFactor / (1.5 + averageDiameter / averageLength)) x
\* reinforcementCorrectionFactor; the result carries ldCorrectionFactor, the
\* table factor of its ldRatio, which is never 1 and is not a term of the product.
C1_ProductWithoutLD ==
  op = "calculateCoreSample" =>
    /\ REq(res.equivalentCubeStrength,
           RMul(RMul(RMul(RMul(res.coreStrength, res.moistureCorrectionFactor),
                          res.cuttingCorrectionFactor),
                     RDiv(arg[1].directionFactor,
                          RAdd(Rat(15, 10),
                               RDiv(res.averageDiameter, res.averageLength)))),
                res.reinforcementCorrectionFactor))
    /\ REq(res.ldCorrectionFactor, calculateLDCorrectionFactor(res.ldRatio))
    /\ RLt(ROne, res.ldCorrectionFactor)

\* a reinforced README core (93 mm x 121 mm), whose L/D factor is 1.07
C1_Witness ==
  /\ op = "calculateCoreSample"
  /\ REq(res.averageDiameter, Rat(93, 1))
  /\ REq(res.ldCorrectionFactor, Dec2(107))
  /\ RLt(ROne, res.reinforcementCorrectionFactor)

\* the L/D table read as a clamped piecewise-linear function of the ratio r
LDPiecewise(r) ==
  IF RLe(r, Rat(15, 10)) THEN Dec2(107)
  ELSE IF RLe(Rat(35, 10), r) THEN Dec2(102)
  ELSE IF RLe(r, Rat(20, 10))
  THEN RSub(Dec2(107), RMul(RSub(r, Rat(15, 10)), Rat(4, 100)))
  ELSE IF RLe(r, Rat(25, 10))
  THEN RSub(Dec2(105), RMul(RSub(r, Rat(20, 10)), Rat(2, 100)))
  ELSE IF RLe(r, Rat(30, 10))
  THEN RSub(Dec2(104), RMul(RSub(r, Rat(25, 10)), Rat(2, 100)))
  ELSE RSub(Dec2(103), RMul(RSub(r, Rat(30, 10)), Rat(2, 100)))

\* C2: calculateLDCorrectionFactor(r) is the clamped piecewise-linear
\* interpolation of the L/D table: 1.07 for r <= 1.5, 1.02 for r >= 3.5, the
\* table factor at each breakpoint, and monotonic (never increasing with r).
C2_LDClampedPiecewiseLinear ==
  op = "calculateLDCorrectionFactor" =>
    /\ REq(res, LDPiecewise(arg[1]))
    /\ \A i \in 1..Len(LD_CORRECTION_TABLE) :
         REq(arg[1], LD_CORRECTION_TABLE[i].ldRatio)
           => REq(res, LD_CORRECTION_TABLE[i].correctionFactor)
    /\ \A r \in LdInputs :
         RLe(r, arg[1]) => RLe(res, calculateLDCorrectionFactor(r))

\* a ratio below the table (1.25) answered with the first factor
C2_Witness ==
  /\ op = "calculateLDCorrectionFactor"
  /\ RLt(arg[1], Rat(15, 10))
  /\ REq(res, Dec2(107))

FgOps == {"calculateFgCorrectionFactor", "calculateFgCorrectionFactor_density"}

\* C3: at each of the 25 lattice nodes (d a standard diameter, s a table
\* strength) calculateFgCorrectionFactor returns the grid value FG_TABLE[d][index
\* of s], in both calculators.
C3_FgExactAtLatticeNodes ==
  op \in FgOps =>
    \A d \in DOMAIN FG_TABLE : \A j \in 1..Len(FG_STRENGTH_POINTS) :
      (REq(arg[1], Rat(d, 1)) /\ REq(arg[2], Rat(FG_STRENGTH_POINTS[j], 1)))
        => REq(res, FG_TABLE[d][j])

\* the last node of the grid, 150 mm and 35 MPa
C3_Witness ==
  /\ op \in FgOps
  /\ REq(arg[1], Rat(150, 1))
  /\ REq(arg[2], Rat(35, 1))
  /\ REq(res, Dec2(102))

\* C4: for any diameter and strength calculateFgCorrectionFactor equals its
\* value at the point clamped to [50, 150] mm and [15, 35] MPa and lies between
\* the grid's extremes 1.02 and 1.18; the reference route answers every positive
\* diameter and non-negative strength with status 200 and that value.
C4_FgClampedToTable ==
  /\ op = "calculateFgCorrectionFactor" =>
       /\ REq(res, calculateFgCorrectionFactor(ClampDiameter(arg[1]),
                                               ClampStrength(arg[2])))
       /\ RLe(Dec2(102), res) /\ RLe(res, Dec2(118))
  /\ (/\ op = "GET /reference/fg-factor"
      /\ ~isNaN(arg[1]) /\ ~isNaN(arg[2])
      /\ RLt(RZero, arg[1][1]) /\ RLe(RZero, arg[2][1])) =>
       /\ res.status = 200
       /\ REq(res.body.fg, calculateFgCorrectionFactor(ClampDiameter(arg[1][1]),
                                                       ClampStrength(arg[2][1])))
       /\ RLe(Dec2(102), res.body.fg) /\ RLe(res.body.fg, Dec2(118))

\* a point outside the table on both axes: above 150 mm, below 15 MPa
C4_Witness ==
  /\ op = "calculateFgCorrectionFactor"
  /\ RLt(Rat(150, 1), arg[1])
  /\ RLt(arg[2], Rat(15, 1))
  /\ REq(res, Dec2(107))

\* the bilinear interpolation taken along the diameter axis first (at the two
\* bracketing strengths) and along the strength axis second
FgDiameterFirst(clampedDiameter, clampedStrength) ==
  LET AtIntervals(dLowerIdx, sLowerIdx) ==
        LET AtCorners(dLower, dUpper, sLower, sUpper) ==
              linearInterpolate(
                clampedStrength, Rat(sLower, 1), Rat(sUpper, 1),
                linearInterpolate(clampedDiameter, Rat(dLower, 1), Rat(dUpper, 1),
                                  FG_TABLE[dLower][sLowerIdx + 1],
                                  FG_TABLE[dUpper][sLowerIdx + 1]),
                linearInterpolate(clampedDiameter, Rat(dLower, 1), Rat(dUpper, 1),
                                  FG_TABLE[dLower][sLowerIdx + 2],
                                  FG_TABLE[dUpper][sLowerIdx + 2]))
        IN  AtCorners(FG_DIAMETER_POINTS[dLowerIdx + 1], FG_DIAMETER_POINTS[dLowerIdx + 2],
                      FG_STRENGTH_POINTS[sLowerIdx + 1], FG_STRENGTH_POINTS[sLowerIdx + 2])
  IN  AtIntervals(LowerIdx(clampedDiameter, FG_DIAMETER_POINTS),
                  LowerIdx(clampedStrength, FG_STRENGTH_POINTS))

\* C5: the strength-first interpolation of calculateFgCorrectionFactor equals
\* the diameter-first interpolation of the same four grid values, at the
\* clamped point each calculator looks up.
C5_FgAxisOrderInvariant ==
  /\ op = "calculateFgCorrectionFactor" =>
       REq(res, FgDiameterFirst(Rat(roundToNearestStandardDiameter(arg[1]), 1),
                                ClampStrength(arg[2])))
  /\ op = "calculateFgCorrectionFactor_density" =>
       REq(res, FgDiameterFirst(ClampDiameter(arg[1]), ClampStrength(arg[2])))

\* a point strictly inside a grid cell on both axes (93 mm, 22.5 MPa)
C5_Witness ==
  /\ op = "calculateFgCorrectionFactor_density"
  /\ REq(arg[1], Rat(93, 1))
  /\ REq(arg[2], Rat(45, 2))
  /\ RLt(Dec2(109), res) /\ RLt(res, Dec2(111))

\* the Fg value of one standard diameter row n at the clamped strength
FgRow(n, clampedStrength) ==
  LET AtInterval(sLowerIdx) ==
        linearInterpolate(clampedStrength,
                          Rat(FG_STRENGTH_POINTS[sLowerIdx + 1], 1),
                          Rat(FG_STRENGTH_POINTS[sLowerIdx + 2], 1),
                          FG_TABLE[n][sLowerIdx + 1], FG_TABLE[n][sLowerIdx + 2])
  IN  AtInterval(LowerIdx(clampedStrength, FG_STRENGTH_POINTS))

\* the linear blend of the two standard rows that bracket the clamped diameter
FgBlend(clampedDiameter, clampedStrength) ==
  LET AtInterval(dLowerIdx) ==
        LET Between(dLower, dUpper) ==
              RDiv(RAdd(RMul(RSub(Rat(dUpper, 1), clampedDiameter),
                             FgRow(dLower, clampedStrength)),
                        RMul(RSub(clampedDiameter, Rat(dLower, 1)),
                             FgRow(dUpper, clampedStrength))),
                   Rat(dUpper - dLower, 1))
        IN  Between(FG_DIAMETER_POINTS[dLowerIdx + 1], FG_DIAMETER_POINTS[dLowerIdx + 2])
  IN  AtInterval(LowerIdx(clampedDiameter, FG_DIAMETER_POINTS))

\* C6, as stated: calculateFgCorrectionFactor of the current calculator
\* interpolates on the raw diameter clamped to [50, 150], so its value is the
\* blend of the two bracketing standard rows.
C6_FgBlendsRawDiameter ==
  op = "calculateFgCorrectionFactor" =>
    REq(res, FgBlend(ClampDiameter(arg[1]), ClampStrength(arg[2])))

\* C6, amended: calculateFgCorrectionFactor of the current calculator rounds the
\* diameter to the nearest standard diameter and returns that row's value at
\* the clamped strength (for 93 mm the 100 mm row); the density calculator's
\* function is the one that blends the two rows bracketing the clamped diameter.
C6_FgSnapsToNearestRow ==
  /\ op = "calculateFgCorrectionFactor" =>
       REq(res, FgRow(roundToNearestStandardDiameter(arg[1]), ClampStrength(arg[2])))
  /\ op = "calculateFgCorrectionFactor_density" =>
       REq(res, FgBlend(ClampDiameter(arg[1]), ClampStrength(arg[2])))

\* 93 mm answered with the 100 mm row, which differs from the blend
C6_Witness ==
  /\ op = "calculateFgCorrectionFactor"
  /\ REq(arg[1], Rat(93, 1))
  /\ REq(res, FgRow(100, ClampStrength(arg[2])))
  /\ ~REq(res, FgBlend(ClampDiameter(arg[1]), ClampStrength(arg[2])))

StandardDiameterSet == {50, 75, 100, 125, 150}

Distance(x, m) == RAbs(RSub(x, Rat(m, 1)))

\* C7: roundToNearestStandardDiameter(x) is a member of {50, 75, 100, 125, 150}
\* at the smallest absolute distance from x, and among equally distant members
\* it is the smaller one.
C7_NearestTiesToSmaller ==
  op = "roundToNearestStandardDiameter" =>
    /\ res \in StandardDiameterSet
    /\ \A m \in StandardDiameterSet :
         /\ RLe(Distance(arg[1], res), Distance(arg[1], m))
         /\ REq(Distance(arg[1], m), Distance(arg[1], res)) => res <= m

\* the tie 87.5 between 75 and 100 resolved to 75
C7_Witness ==
  /\ op = "roundToNearestStandardDiameter"
  /\ REq(arg[1], Rat(175, 2))
  /\ res = 75

\* C8, as stated: the strength key of the Fg lookup in calculateCoreSample is
\* coreStrength x 0.0980665.
C8_FgKeyIsExactConversion ==
  op = "calculateCoreSample" =>
    REq(res.cuttingCorrectionFactor,
        calculateFgCorrectionFactor(res.averageDiameter,
                                    RMul(res.coreStrength, Rat(980665, 10000000))))

\* C8, amended: the strength key of the Fg lookup in calculateCoreSample is
\* coreStrength / 10; only equivalentCubeStrengthMPa uses the exact factor
\* 0.0980665.
C8_FgKeyIsTenth ==
  op = "calculateCoreSample" =>
    /\ REq(res.cuttingCorrectionFactor,
           calculateFgCorrectionFactor(res.averageDiameter,
                                       RDiv(res.coreStrength, Rat(10, 1))))
    /\ REq(res.equivalentCubeStrengthMPa,
           RMul(res.equivalentCubeStrength, Rat(980665, 10000000)))

\* a core whose two keys fall inside the table and give different Fg values
C8_Witness ==
  /\ op = "calculateCoreSample"
  /\ REq(res.cuttingCorrectionFactor,
         calculateFgCorrectionFactor(res.averageDiameter,
                                     RDiv(res.coreStrength, Rat(10, 1))))
  /\ ~REq(res.cuttingCorrectionFactor,
          calculateFgCorrectionFactor(res.averageDiameter,
                                      RMul(res.coreStrength, Rat(980665, 10000000))))

MoistureFactorOf(condition) ==
  CASE condition = "dry" -> Dec2(96)
    [] condition = "natural" -> Dec2(100)
    [] condition = "saturated" -> Dec2(105)

\* C9: getMoistureCorrectionFactor returns 0.96 for dry, 1.00 for natural and
\* 1.05 for saturated, and that value is the moistureCorrectionFactor of every
\* core sample result.
C9_MoistureExactLookup ==
  /\ op = "getMoistureCorrectionFactor" => REq(res, MoistureFactorOf(arg[1]))
  /\ op = "calculateCoreSample" =>
       REq(res.moistureCorrectionFactor, MoistureFactorOf(arg[1].aggregateCondition))

\* a saturated core with factor 1.05
C9_Witness ==
  /\ op = "calculateCoreSample"
  /\ arg[1].aggregateCondition = "saturated"
  /\ REq(res.moistureCorrectionFactor, Dec2(105))

\* the sum over the bars of barDiameter x distanceFromEnd
BarProductSum(bars) ==
  RSum([i \in 1..Len(bars) |-> RMul(bars[i].diameterMm, bars[i].distanceFromEndMm)],
       1, RZero)

HasBars(reinforcement) == reinforcement # Undefined /\ Len(reinforcement[1]) > 0

StrengthFields ==
  {"averageDiameter", "averageLength", "ldRatio", "breakingLoadTons", "coreStrength",
   "moistureCorrectionFactor", "cuttingCorrectionFactor", "ldCorrectionFactor",
   "reinforcementCorrectionFactor", "equivalentCubeStrength",
   "equivalentCubeStrengthMPa"}

SameStrengthFields(r1, r2) == \A f \in StrengthFields : REq(r1[f], r2[f])

\* no weight, and a weight that no input has
WeightAlternatives == {Undefined, Defined(Rat(2000, 1))}

\* C11: a core sample result and the result of the same sample with any other
\* weightGrams (or none) agree on every field except calculatedDensity, which
\* is weight x 1.2732 / averageDiameter^2 / averageLength x 1000 when a weight
\* is supplied and 2.4 otherwise.
C11_DensityIsReportedOnly ==
  op = "calculateCoreSample" =>
    /\ \A w \in WeightAlternatives :
         \A other \in {calculateCoreSample([arg[1] EXCEPT !.weightGrams = w])} :
           SameStrengthFields(res, other)
    /\ REq(res.calculatedDensity,
           IF arg[1].weightGrams = Undefined THEN Rat(24, 10)
           ELSE RDiv(RMul(RMul(arg[1].weightGrams[1], Rat(12732, 10000)), Rat(1000, 1)),
                     RMul(RMul(res.averageDiameter, res.averageDiameter),
                          res.averageLength)))

\* a weighed core whose density differs from the default
C11_Witness ==
  /\ op = "calculateCoreSample"
  /\ arg[1].weightGrams # Undefined
  /\ ~REq(res.calculatedDensity, Rat(24, 10))
  /\ RLt(RZero, res.equivalentCubeStrength)

PrintsAs(x, p, q) == RLe(RAbs(RSub(x, Rat(p, q))), Rat(1, 2 * q))

\* the same for a root: its square lies between the squares of the two ends
RootPrintsAs(r, p, q) ==
  /\ RLe(Square(Rat(2 * p - 1, 2 * q)), RootSquare(r))
  /\ RLe(RootSquare(r), Square(Rat(2 * p + 1, 2 * q)))

\* the request of the README's batch example
ReadmeBatch == <<BatchSample(121, Rat(14232, 100)), BatchSample(122, Rat(11478, 100))>>

ReadmeStrengths ==
  /\ PrintsAs(res.results[1].equivalentCubeStrength, 26574, 100)
  /\ PrintsAs(res.results[2].equivalentCubeStrength, 21809, 100)
  /\ PrintsAs(res.minimumStrength, 21809, 100)
  /\ PrintsAs(res.maximumStrength, 26574, 100)

LoadsKN == [i \in DOMAIN arg[1] |-> arg[1][i].failureLoadKN]
LoadsN == [i \in DOMAIN arg[1] |-> RMul(arg[1][i].failureLoadKN, Rat(1000, 1))]
Diameters == [i \in DOMAIN arg[1] |-> arg[1][i].diameterMm]
TensileStrengths == [i \in DOMAIN res.results |-> res.results[i].tensileStrengthMPa]

\* sd is the sample standard deviation of xs: sd^2 x (n - 1) is the sum of the
\* squared deviations from the mean, and sd is 0 for fewer than two values
IsSampleSD(sd, xs) ==
  IF Len(xs) < 2 THEN RootIsZero(sd)
  ELSE REq(RMul(RootSquare(sd), Rat(Len(xs) - 1, 1)),
           SumSquaredDiffs(xs, MeanOf(xs), 1, RZero))

\* cv is sd / mean x 100 for the sample standard deviation sd of xs
IsCoefficientOfVariation(cv, xs) ==
  \E sd \in {[sq |-> RDiv(RMul(RootSquare(cv), Square(MeanOf(xs))), Rat(10000, 1))]} :
    IsSampleSD(sd, xs)

C15_SingleSpecimenHasNoSpread ==
  op = "calculatePullOffBatch" =>
    /\ IsSampleSD(res.uncertainty.loadSD, LoadsN)
    /\ IsSampleSD(res.uncertainty.diameterSD, Diameters)
    /\ IsSampleSD(res.standardDeviation, TensileStrengths)
    /\ Len(arg[1]) = 1 =>
         /\ res.standardDeviation = ToRoot(RZero)
         /\ res.coefficientOfVariation = ToRoot(RZero)
         /\ res.uncertainty.uncertaintyRepeatabilityLoad = ToRoot(RZero)
         /\ res.uncertainty.uncertaintyRepeatabilityDiameter = ToRoot(RZero)
         /\ res.uncertainty.uncertaintyTypeA = ToRoot(RZero)

\* a batch of one specimen, whose uncertainty is of type B alone
C15_Witness ==
  /\ op = "calculatePullOffBatch"
  /\ Len(arg[1]) = 1
  /\ RootIsZero(res.uncertainty.uncertaintyTypeA)
  /\ ~RootIsZero(res.uncertainty.expandedUncertainty)
  /\ RootEq(res.uncertainty.combinedUncertainty, res.uncertainty.uncertaintyTypeB)

\* the sensitivity coefficients of the budget, squared
CpSquared == Square(RDiv(Rat(4, 1), RMul(MathPI, Square(res.uncertainty.averageDiameter))))
CDSquared ==
  Square(RDiv(RMul(Rat(2, 1), res.uncertainty.averageStrength),
              res.uncertainty.averageDiameter))

Pooled == arg[1].readingsBefore \o arg[1].readingsAfter

\* the k-th smallest of xs: fewer than k values lie below it and at least k
\* are not above it
IsKthSmallest(v, xs, k) ==
  /\ \E i \in DOMAIN xs : REq(xs[i], v)
  /\ Cardinality({i \in DOMAIN xs : RLt(xs[i], v)}) < k
  /\ Cardinality({i \in DOMAIN xs : RLe(xs[i], v)}) >= k

\* m is the median of xs: the middle value, or the mean of the two middle
\* values of an even number of them
IsMedian(m, xs) ==
  IF Len(xs) % 2 = 1
  THEN IsKthSmallest(m, xs, (Len(xs) + 1) \div 2)
  ELSE \E i, j \in DOMAIN xs :
         /\ IsKthSmallest(xs[i], xs, Len(xs) \div 2)
         /\ IsKthSmallest(xs[j], xs, Len(xs) \div 2 + 1)
         /\ REq(m, RDiv(RAdd(xs[i], xs[j]), Rat(2, 1)))

CountWithin(lo, hi) ==
  Cardinality({i \in DOMAIN res.correctedReadings :
                 /\ RLe(lo, res.correctedReadings[i])
                 /\ RLe(res.correctedReadings[i], hi)})

\* every corrected reading of the result lies within 25% of m
AllWithinQuarterOf(m) ==
  CountWithin(RMul(m, Rat(75, 100)), RMul(m, Rat(125, 100))) = Len(res.correctedReadings)

\* k is the integer nearest to m, halves upwards
IsRounded(k, m) ==
  /\ REq(k, MathFloor(k))
  /\ RLe(RSub(k, Rat(1, 2)), m)
  /\ RLt(m, RAdd(k, Rat(1, 2)))

\* C18 as stated: validReadingsCount is the number of readings whenever every
\* corrected reading lies within 25% of the median of the corrected readings.
C18_AllValidWithinQuarterOfMedian ==
  op = "calculateSchmidtHammerElement" =>
    \A m \in {calculateMedian(res.correctedReadings)} :
      AllWithinQuarterOf(m) => res.validReadingsCount = Len(arg[1].readings)

\* C18: validReadingsCount never exceeds the number of readings, counts the
\* corrected readings r with 0.75 x medianRebound <= r <= 1.25 x medianRebound,
\* where medianRebound is the median of the corrected readings rounded to an
\* integer, and is the number of readings whenever every corrected reading
\* lies within 25% of medianRebound.
C18_ValidReadingsAroundRoundedMedian ==
  op = "calculateSchmidtHammerElement" =>
    /\ Len(res.correctedReadings) = Len(arg[1].readings)
    /\ \A i \in DOMAIN arg[1].readings :
         REq(res.correctedReadings[i], RMul(arg[1].readings[i], arg[2]))
    /\ \E m \in {res.medianRebound} :
         /\ \E median \in {RDiv(RAdd(res.correctedReadings[i], res.correctedReadings[j]),
                                Rat(2, 1)) : i, j \in DOMAIN res.correctedReadings} :
              IsMedian(median, res.correctedReadings) /\ IsRounded(m, median)
         /\ REq(res.lowerLimit, RMul(m, Rat(75, 100)))
         /\ REq(res.upperLimit, RMul(m, Rat(125, 100)))
         /\ res.validReadingsCount = CountWithin(RMul(m, Rat(75, 100)), RMul(m, Rat(125, 100)))
         /\ AllWithinQuarterOf(m) => res.validReadingsCount = Len(arg[1].readings)
    /\ res.validReadingsCount <= Len(arg[1].readings)

\* every reading lies within 25% of the median, and one of them is outside
\* the band around the rounded median
C18_Witness ==
  /\ op = "calculateSchmidtHammerElement"
  /\ AllWithinQuarterOf(calculateMedian(res.correctedReadings))
  /\ res.validReadingsCount < Len(arg[1].readings)
  /\ ~REq(res.medianRebound, calculateMedian(res.correctedReadings))

\* the number of readings and the sample variance of the corrected readings
ReadingCount == Len(res.correctedReadings)
SampleVariance ==
  RDiv(SumSquaredDiffs(res.correctedReadings, MeanOf(res.correctedReadings), 1, RZero),
       Rat(ReadingCount - 1, 1))

DofOfResult ==
  IF ReadingCount < 2 THEN NaN
  ELSE effectiveDofOf(res.uncertainty.combinedUncertainty,
                      res.uncertainty.repeatabilityUncertainty, ReadingCount)

SchmidtHammerUncertaintyFields ==
  {"repeatabilityUncertainty", "resolutionUncertainty", "calibrationUncertainty",
   "combinedUncertainty", "coverageFactor", "expandedUncertainty"}

BatchVariants(items, i) ==
  {<<[k \in DOMAIN items |-> items[Len(items) + 1 - k]], Len(items) + 1 - i>>,
   IF Len(items) = 1 THEN <<items \o items, 1>> ELSE <<(<<items[i]>>), 1>>}

\* C21: in calculateBatch, calculatePullOffBatch and
\* calculateSchmidtHammerBatch the results have the length and the order of
\* the input array, results[i] is the single-item computation on item i (for
\* an element with the one correction factor of the batch), and item i has
\* the same result in a batch where the other items are reordered, removed
\* or added.
C21_BatchResultsItemwise ==
  /\ op = "calculateBatch" =>
       /\ Len(res.results) = Len(arg[1])
       /\ \A i \in DOMAIN arg[1] :
            /\ res.results[i] = calculateCoreSample(arg[1][i])
            /\ \A v \in BatchVariants(arg[1], i) :
                 \A batch \in {calculateBatch(v[1])} :
                   batch.results[v[2]] = res.results[i]
  /\ op = "calculatePullOffBatch" =>
       /\ Len(res.results) = Len(arg[1])
       /\ \A i \in DOMAIN arg[1] :
            /\ res.results[i] = calculatePullOffSample(arg[1][i])
            /\ \A v \in BatchVariants(arg[1], i) :
                 \A batch \in {calculatePullOffBatch(v[1])} :
                   batch.results[v[2]] = res.results[i]
  /\ op = "calculateSchmidtHammerBatch" =>
       /\ Len(res.results) = Len(arg[1].elements)
       /\ res.correctionFactorRSA =
            calculateAnvilCorrectionFactor(arg[1].anvilCalibration).rsa
       /\ \A i \in DOMAIN arg[1].elements :
            /\ res.results[i] =
                 calculateSchmidtHammerElement(arg[1].elements[i], res.correctionFactorRSA)
            /\ \A v \in BatchVariants(arg[1].elements, i) :
                 \A batch \in {calculateSchmidtHammerBatch([arg[1] EXCEPT !.elements = v[1]])} :
                   batch.results[v[2]] = res.results[i]

\* a batch of two elements with different readings, each result holding the
\* readings of its own element
C21_Witness ==
  /\ op = "calculateSchmidtHammerBatch"
  /\ Len(arg[1].elements) = 2
  /\ Len(arg[1].elements[1].readings) # Len(arg[1].elements[2].readings)
  /\ res.results[1].originalReadings = arg[1].elements[1].readings
  /\ res.results[2].originalReadings = arg[1].elements[2].readings

\* the conditions on a core sample of a request body: an object with exactly
\* 2 positive diameters, 2 or 3 positive lengths, a positive breaking load
\* and direction factor, one of the three aggregate conditions and, when
\* bars are given, bars of positive diameter at a distance of 0 or more
CoreItemMeetsContract(item) ==
  /\ item.type = "object"
  /\ item.fields.diameters.type = "array"
  /\ Len(item.fields.diameters.items) = 2
  /\ \A i \in DOMAIN item.fields.diameters.items :
       /\ item.fields.diameters.items[i].type = "number"
       /\ RLt(RZero, item.fields.diameters.items[i].value)
  /\ item.fields.lengths.type = "array"
  /\ Len(item.fields.lengths.items) \in {2, 3}
  /\ \A i \in DOMAIN item.fields.lengths.items :
       /\ item.fields.lengths.items[i].type = "number"
       /\ RLt(RZero, item.fields.lengths.items[i].value)
  /\ item.fields.breakingLoadKN.type = "number"
  /\ RLt(RZero, item.fields.breakingLoadKN.value)
  /\ item.fields.directionFactor.type = "number"
  /\ RLt(RZero, item.fields.directionFactor.value)
  /\ item.fields.aggregateCondition \in {Str("dry"), Str("natural"), Str("saturated")}
  /\ item.fields.reinforcement # Absent =>
       /\ item.fields.reinforcement.type = "array"
       /\ \A i \in DOMAIN item.fields.reinforcement.items :
            /\ item.fields.reinforcement.items[i].type = "object"
            /\ item.fields.reinforcement.items[i].fields.diameterMm.type = "number"
            /\ RLt(RZero, item.fields.reinforcement.items[i].fields.diameterMm.value)
            /\ item.fields.reinforcement.items[i].fields.distanceFromEndMm.type = "number"
            /\ RLe(RZero, item.fields.reinforcement.items[i].fields.distanceFromEndMm.value)

\* the conditions on a pull-off specimen of a request body
SpecimenMeetsContract(item) ==
  /\ item.type = "object"
  /\ item.fields.diameterMm.type = "number"
  /\ RLt(RZero, item.fields.diameterMm.value)
  /\ item.fields.failureLoadKN.type = "number"
  /\ RLt(RZero, item.fields.failureLoadKN.value)

\* a 400 answer with an error body and no result
IsErrorAnswer == res.status = 400 /\ DOMAIN res.body = {"error", "details"}

\* C22: a batch route calls the engine only when the array of the body is
\* there, is not empty and every item of it meets the conditions of the
\* validator, and then calls it once, with all the items in their order; when
\* the array is missing or empty or one item fails a condition the answer is
\* 400 with an error body and no result, and the engine is not called.
C22_EngineOnlyAfterValidation ==
  /\ op = "POST /calculate/batch" =>
       /\ engineCalls # <<>> =>
            /\ arg[1].samples.type = "array"
            /\ arg[1].samples.items # <<>>
            /\ \A i \in DOMAIN arg[1].samples.items :
                 CoreItemMeetsContract(arg[1].samples.items[i])
            /\ Len(engineCalls) = 1
            /\ engineCalls[1].fn = "calculateBatch"
            /\ Len(engineCalls[1].args[1]) = Len(arg[1].samples.items)
            /\ res.status = 200
       /\ (\/ arg[1].samples.type # "array"
           \/ arg[1].samples.items = <<>>
           \/ \E i \in DOMAIN arg[1].samples.items :
                ~CoreItemMeetsContract(arg[1].samples.items[i]))
          => IsErrorAnswer /\ engineCalls = <<>>
       /\ res.status = 200 <=> engineCalls # <<>>
  /\ op = "POST /pulloff/calculate/batch" =>
       /\ engineCalls # <<>> =>
            /\ arg[1].specimens.type = "array"
            /\ arg[1].specimens.items # <<>>
            /\ \A i \in DOMAIN arg[1].specimens.items :
                 SpecimenMeetsContract(arg[1].specimens.items[i])
            /\ Len(engineCalls) = 1
            /\ engineCalls[1].fn = "calculatePullOffBatch"
            /\ Len(engineCalls[1].args[1]) = Len(arg[1].specimens.items)
            /\ res.status = 200
       /\ (\/ arg[1].specimens.type # "array"
           \/ arg[1].specimens.items = <<>>
           \/ \E i \in DOMAIN arg[1].specimens.items :
                ~SpecimenMeetsContract(arg[1].specimens.items[i]))
          => IsErrorAnswer /\ engineCalls = <<>>
       /\ res.status = 200 <=> engineCalls # <<>>

\* a batch whose first sample is valid and whose second has a bar at a
\* negative distance: refused without a call of the engine
C22_Witness ==
  /\ op = "POST /calculate/batch"
  /\ arg[1].samples.type = "array"
  /\ Len(arg[1].samples.items) = 2
  /\ CoreItemMeetsContract(arg[1].samples.items[1])
  /\ arg[1].samples.items[2] = RawSampleWithBars(Arr(<<RawBar(8, -1)>>))
  /\ IsErrorAnswer
  /\ engineCalls = <<>>

\* the specimens handed to calculatePullOffBatch by the route
SpecimensGiven == engineCalls[1].args[1]

\* C23 as stated: the pull-off batch route never invokes
\* calculatePullOffBatch with fewer than 2 specimens.
C23_NeverFewerThanTwo ==
  (op = "POST /pulloff/calculate/batch" /\ engineCalls # <<>>) =>
    Len(SpecimensGiven) >= 2

\* C23: the pull-off batch route refuses a missing and an empty specimens
\* array and hands every array of one or more valid specimens to
\* calculatePullOffBatch; for one specimen the answer is 200 and its standard
\* deviation, coefficient of variation and type A uncertainty are the number
\* 0, the divisor n - 1 never being used.
C23_OneSpecimenReachesEngine ==
  op = "POST /pulloff/calculate/batch" =>
    /\ engineCalls # <<>> => Len(SpecimensGiven) >= 1
    /\ (arg[1].specimens.type = "array" /\ arg[1].specimens.items = <<>>) =>
         res.status = 400 /\ engineCalls = <<>>
    /\ (/\ arg[1].specimens.type = "array"
        /\ Len(arg[1].specimens.items) = 1
        /\ SpecimenMeetsContract(arg[1].specimens.items[1])) =>
         /\ res.status = 200
         /\ Len(engineCalls) = 1
         /\ engineCalls[1].fn = "calculatePullOffBatch"
         /\ Len(SpecimensGiven) = 1
         /\ res.body = calculatePullOffBatch(SpecimensGiven)
         /\ res.body.standardDeviation = ToRoot(RZero)
         /\ res.body.coefficientOfVariation = ToRoot(RZero)
         /\ res.body.uncertainty.uncertaintyTypeA = ToRoot(RZero)

\* a body with one valid specimen, answered with its result
C23_Witness ==
  /\ op = "POST /pulloff/calculate/batch"
  /\ engineCalls # <<>>
  /\ Len(SpecimensGiven) = 1
  /\ res.status = 200
  /\ Len(res.body.results) = 1
  /\ RootIsZero(res.body.standardDeviation)

\* x is a number of a result that is neither NaN nor infinite
IsFiniteNumber(x) ==
  /\ x # NaN
  /\ IF "sq" \in DOMAIN x THEN x.sq.d # <<>> ELSE x.d # <<>>

\* every numeric field of the result of one element is a finite number, and
\* the divisor of its degrees of freedom, repeatability^4 / (n - 1), is not 0
ElementResultIsFinite(r) ==
  /\ \A i \in DOMAIN r.correctedReadings : IsFiniteNumber(r.correctedReadings[i])
  /\ \A f \in {"medianRebound", "lowerLimit", "upperLimit", "standardDeviation",
               "expandedUncertainty", "approximateStrengthKgCm2"} : IsFiniteNumber(r[f])
  /\ \A f \in DOMAIN r.uncertainty : IsFiniteNumber(r.uncertainty[f])
  /\ ~RootIsZero(r.uncertainty.repeatabilityUncertainty)

\* 9 to 15 readings
ElementMeetsContract(element) == Len(element.readings) \in 9..15

\* at least 5 readings before and 5 after the test
AnvilMeetsContract(anvil) == Len(anvil.readingsBefore) >= 5 /\ Len(anvil.readingsAfter) >= 5

\* the core and pull-off part of C24: no division by 0 and only finite
\* numbers in the results of the core and pull-off engines
CoreAndPullOffNeverFail ==
  /\ op = "calculateCoreSample" =>
       /\ ~REq(res.averageDiameter, RZero)
       /\ ~REq(res.averageLength, RZero)
       /\ \A f \in DOMAIN res : IsFiniteNumber(res[f])
  /\ op = "calculatePullOffBatch" =>
       /\ ~REq(res.averageLoadKN, RZero)
       /\ ~REq(res.uncertainty.averageDiameter, RZero)
       /\ \A f \in DOMAIN res \ {"results", "uncertainty"} : IsFiniteNumber(res[f])
       /\ \A f \in DOMAIN res.uncertainty : IsFiniteNumber(res.uncertainty[f])
       /\ \A i \in DOMAIN res.results :
            \A f \in {"failureLoadN", "areaMm2", "tensileStrengthMPa"} :
              IsFiniteNumber(res.results[i][f])

\* C24 as stated: for inputs that meet the contract no engine operation
\* fails: no division has the divisor 0 and every numeric field of a result
\* is a finite number, also when the median of the anvil readings is 0 and
\* when all readings of an element are equal.
C24_NoEngineOperationFails ==
  /\ CoreAndPullOffNeverFail
  /\ (op = "calculateAnvilCorrectionFactor" /\ AnvilMeetsContract(arg[1])) =>
       /\ ~REq(res.median, RZero)
       /\ IsFiniteNumber(res.rsa)
  /\ (op = "calculateSchmidtHammerElement" /\ ElementMeetsContract(arg[1])) =>
       ElementResultIsFinite(res)
  /\ (/\ op = "calculateSchmidtHammerBatch"
      /\ AnvilMeetsContract(arg[1].anvilCalibration)
      /\ \A i \in DOMAIN arg[1].elements : ElementMeetsContract(arg[1].elements[i])) =>
       /\ IsFiniteNumber(res.correctionFactorRSA)
       /\ \A i \in DOMAIN res.results : ElementResultIsFinite(res.results[i])

\* a batch of one element of nine readings whose anvil readings are all 0:
\* the correction factor and the corrected readings are infinite
C24_Witness ==
  /\ op = "calculateSchmidtHammerBatch"
  /\ arg[1].anvilCalibration = ZeroAnvil
  /\ arg[1].elements = <<Element(NineReadings)>>
  /\ REq(res.anvilMedian, RZero)
  /\ res.correctionFactorRSA = PositiveInfinity
  /\ res.results[1].medianRebound = PositiveInfinity
  /\ res.results[1].standardDeviation = NaN

\* nine equal readings: the results are finite, and the degrees of freedom
\* are a quotient with the divisor 0
C24_EqualReadings ==
  /\ op = "calculateSchmidtHammerElement"
  /\ arg[1] = Element(NineEqualReadings)
  /\ RootIsZero(res.uncertainty.repeatabilityUncertainty)
  /\ RootIsZero(res.standardDeviation)
  /\ \A f \in DOMAIN res.uncertainty : IsFiniteNumber(res.uncertainty[f])

\* every table has the value it was created with
TablesAreInitial ==
  /\ LD_CORRECTION_TABLE = Initial_LD_CORRECTION_TABLE
  /\ MOISTURE_CORRECTION_TABLE = Initial_MOISTURE_CORRECTION_TABLE
  /\ FG_STRENGTH_POINTS = Initial_FG_STRENGTH_POINTS
  /\ FG_DIAMETER_POINTS = Initial_FG_DIAMETER_POINTS
  /\ FG_TABLE = Initial_FG_TABLE
  /\ DOF_K_TABLE = Initial_DOF_K_TABLE

\* C25: no engine operation modifies a correction table (moisture, L/D, the
\* Fg grid and its axis points, the dof/k table): after every sequence of
\* calculate* and get* calls each table has its initial value, and the table
\* lookup just made gives the same result when it is made again.
C25_TablesNeverModified ==
  /\ TablesAreInitial
  /\ op = "calculateLDCorrectionFactor" => res = calculateLDCorrectionFactor(arg[1])
  /\ op = "calculateFgCorrectionFactor" =>
       res = calculateFgCorrectionFactor(arg[1], arg[2])
  /\ op = "getMoistureCorrectionFactor" => res = getMoistureCorrectionFactor(arg[1])
  /\ op = "getLDCorrectionTable" => res = getLDCorrectionTable

\* a lookup between two points of the L/D table, which reads the ratios of
\* both entries, with the table as it was created
C25_Witness ==
  /\ op = "calculateLDCorrectionFactor"
  /\ RLt(Rat(15, 10), arg[1])
  /\ RLt(arg[1], Rat(20, 10))
  /\ RLt(res, Rat(107, 100))
  /\ RLt(Rat(105, 100), res)
  /\ LD_CORRECTION_TABLE = Initial_LD_CORRECTION_TABLE

\* the expected strengths of the reference sheet in hundredths of a kg/cm2:
\* coreStrength and equivalentCubeStrength of samples 1 to 3
ExpectedResults == <<(<<10069, 11942>>), (<<9362, 11447>>), (<<4828, 5587>>)>>

\* Math.abs(x - expected) < tolerance, with the tolerance 1.0 kg/cm2
WithinTolerance(x, hundredths) == RLt(RAbs(RSub(x, Rat(hundredths, 100))), ROne)

\* the result of sample i passes the test of the test file
PassesReference(result, i) ==
  /\ WithinTolerance(result.coreStrength, ExpectedResults[i][1])
  /\ WithinTolerance(result.equivalentCubeStrength, ExpectedResults[i][2])

\* C26: for the three samples of the reference sheet with 2.5 as density, in
\* the calculator with the density input, and with 2.5 as direction factor,
\* in the calculator with the direction factor, calculateCoreSample and
\* calculateBatch give a coreStrength and an equivalentCubeStrength less than
\* 1.0 kg/cm2 away from (100.69, 119.42), (93.62, 114.47) and (48.28, 55.87).
C26_ReferenceSamples ==
  \A i \in DOMAIN ExcelSamples :
    /\ (op = "calculateCoreSample" /\ arg[1] = ExcelSamples_directionFactor[i]) =>
         PassesReference(res, i)
    /\ (op = "calculateBatch" /\ arg[1] = ExcelSamples_directionFactor) =>
         PassesReference(res.results[i], i)
    /\ (op = "calculateCoreSample_density" /\ arg[1] = ExcelSamples_density[i]) =>
         PassesReference(res, i)
    /\ (op = "calculateBatch_density" /\ arg[1] = ExcelSamples_density) =>
         PassesReference(res.results[i], i)

\* the batch of the three samples, the second with its bar
C26_Witness ==
  /\ op = "calculateBatch"
  /\ arg[1] = ExcelSamples_directionFactor
  /\ Len(res.results) = 3
  /\ RLt(ROne, res.results[2].reinforcementCorrectionFactor)
  /\ PassesReference(res.results[2], 2)

\* the same batch in the calculator with the density input
C26_WitnessDensity ==
  /\ op = "calculateBatch_density"
  /\ arg[1] = ExcelSamples_density
  /\ PassesReference(res.results[3], 3)


\* C27: what getFgCorrectionTable, getLDCorrectionTable and
\* getMoistureCorrectionTable return is independent of the internal tables:
\* after a caller has written into a returned row array or entry object the
\* internal tables have their first values, and later lookups give the
\* factors of those values (1.18 at 50 mm and 15 MPa, 1.07 at L/D 1.5, 0.96
\* for dry aggregate).
C27_ReturnedTablesIndependent ==
  /\ FG_TABLE = Initial_FG_TABLE
  /\ LD_CORRECTION_TABLE = Initial_LD_CORRECTION_TABLE
  /\ MOISTURE_CORRECTION_TABLE = Initial_MOISTURE_CORRECTION_TABLE
  /\ (op = "calculateFgCorrectionFactor" /\ REq(arg[1], Rat(50, 1)) /\ REq(arg[2], Rat(15, 1))) =>
       REq(res, Dec2(118))
  /\ (op = "calculateLDCorrectionFactor" /\ REq(arg[1], Rat(15, 10))) => REq(res, Dec2(107))
  /\ (op = "getMoistureCorrectionFactor" /\ arg[1] = "dry") => REq(res, Dec2(96))

\* a write to a slot of the returned copies themselves (an element of
\* diameters, a whole entry of the returned array) leaves the tables alone
C27_CopiedSlotsIndependent ==
  [][(CallerWritesFgDiameters \/ CallerReplacesLDEntry) => UNCHANGED tables]_vars

\* after returned.table[50][0] = 2 a lookup at 50 mm and 15 MPa gives 2
C27_Witness ==
  /\ op = "calculateFgCorrectionFactor"
  /\ REq(arg[1], Rat(50, 1))
  /\ REq(arg[2], Rat(15, 1))
  /\ FG_TABLE[50][1] = Dec2(200)
  /\ REq(res, Dec2(200))

\* after returned[0].correctionFactor = 2 a lookup at L/D 1.5 gives 2
C27_WitnessLD ==
  /\ op = "calculateLDCorrectionFactor"
  /\ REq(arg[1], Rat(15, 10))
  /\ REq(res, Dec2(200))

\* after returned[0].factor = 2 the factor of dry aggregate is 2
C27_WitnessMoisture ==
  /\ op = "getMoistureCorrectionFactor"
  /\ arg[1] = "dry"
  /\ REq(res, Dec2(200))


\* C28: calculateFgCorrectionFactor, with the diameter rounded to a standard
\* one and with the diameter clamped, is non-increasing in each argument,
\* inside and outside the table range: at the same diameter no higher
\* strength gives a larger Fg, and at the same strength no larger diameter
\* gives a larger Fg.
C28_FgNonIncreasing ==
  /\ op = "calculateFgCorrectionFactor" =>
       /\ \A s \in StrengthInputs :
            RLe(arg[2], s) =>
              \A factor \in {calculateFgCorrectionFactor(arg[1], s)} : RLe(factor, res)
       /\ \A d \in DiameterInputs :
            RLe(arg[1], d) =>
              \A factor \in {calculateFgCorrectionFactor(d, arg[2])} : RLe(factor, res)
  /\ op = "calculateFgCorrectionFactor_density" =>
       /\ \A s \in StrengthInputs :
            RLe(arg[2], s) =>
              \A factor \in {calculateFgCorrectionFactor_density(arg[1], s)} : RLe(factor, res)
       /\ \A d \in DiameterInputs :
            RLe(arg[1], d) =>
              \A factor \in {calculateFgCorrectionFactor_density(d, arg[2])} : RLe(factor, res)

\* a call inside the grid whose factor is strictly above the factor of a
\* higher strength and strictly above the factor of a larger diameter, and
\* equal to the factor of a strength below the grid and of a diameter that
\* rounds to the same standard one
C28_Witness ==
  /\ op = "calculateFgCorrectionFactor"
  /\ REq(arg[1], Rat(100, 1))
  /\ REq(arg[2], Rat(15, 1))
  /\ RLt(calculateFgCorrectionFactor(arg[1], Rat(45, 2)), res)
  /\ RLt(calculateFgCorrectionFactor(Rat(125, 1), arg[2]), res)
  /\ REq(calculateFgCorrectionFactor(Rat(93, 1), Rat(0, 1)), res)


\* originalReadings are the readings of the element in their order, and
\* correctedReadings[i] = readings[i] x rsa at every index i
ReadingsKeptInOrder(element, rsa, result) ==
  /\ result.originalReadings = element.readings
  /\ Len(result.correctedReadings) = Len(element.readings)
  /\ \A i \in DOMAIN element.readings :
       REq(result.correctedReadings[i], RMul(element.readings[i], rsa))

\* C29: calculateSchmidtHammerElement, calculateSchmidtHammerBatch and
\* calculateAnvilCorrectionFactor leave their input arrays as they were (the
\* median sorts a copy): after the call the readings of every element and
\* readingsBefore and readingsAfter are the arrays that were passed,
\* originalReadings equals the readings in input order, and
\* correctedReadings[i] = readings[i] x rsa at the same index i for every i.
C29_InputArraysKept ==
  /\ op = "calculateSchmidtHammerElement" =>
       /\ arg[1] \in ElementInputs
       /\ ReadingsKeptInOrder(arg[1], arg[2], res)
  /\ (op = "calculateSchmidtHammerBatch" /\ res.correctionFactorRSA # PositiveInfinity) =>
       /\ arg[1] \in SchmidtBatchInputs
       /\ Len(res.results) = Len(arg[1].elements)
       /\ \A k \in DOMAIN arg[1].elements :
            ReadingsKeptInOrder(arg[1].elements[k], res.correctionFactorRSA, res.results[k])
  /\ (op = "calculateSchmidtHammerBatch" /\ res.correctionFactorRSA = PositiveInfinity) =>
       \A k \in DOMAIN arg[1].elements :
         res.results[k].originalReadings = arg[1].elements[k].readings
  /\ op = "calculateAnvilCorrectionFactor" =>
       /\ arg[1] \in AnvilInputs
       /\ REq(res.median, calculateMedian(arg[1].readingsBefore \o arg[1].readingsAfter))

\* an element whose readings are not in ascending order, corrected by 80/82:
\* the corrected readings are in the order of the readings, not sorted
C29_Witness ==
  /\ op = "calculateSchmidtHammerElement"
  /\ arg[1].readings = Rats(<<50, 43, 32, 42>>)
  /\ REq(arg[2], Rat(80, 82))
  /\ res.originalReadings = Rats(<<50, 43, 32, 42>>)
  /\ REq(res.correctedReadings[1], RMul(Rat(50, 1), Rat(80, 82)))
  /\ RLt(res.correctedReadings[3], res.correctedReadings[2])
  /\ res.correctedReadings # SortAscending(res.correctedReadings)

\* an anvil whose readings are not in ascending order, after the call
C29_WitnessAnvil ==
  /\ op = "calculateAnvilCorrectionFactor"
  /\ Len(arg[1].readingsBefore) > 1
  /\ RLt(arg[1].readingsBefore[2], arg[1].readingsBefore[1])


\* the arrays with the items of one array in every order
PermutationsOf(items) ==
  {[i \in DOMAIN items |-> items[p[i]]] :
   p \in {f \in [DOMAIN items -> DOMAIN items] :
            \A i, j \in DOMAIN items : f[i] = f[j] => i = j}}

\* minimumStrength <= averageStrength <= maximumStrength, and both ends are
\* the strength of an item
StatisticsWithinItems(batch, strengths) ==
  /\ RLe(batch.minimumStrength, batch.averageStrength)
  /\ RLe(batch.averageStrength, batch.maximumStrength)
  /\ \E i \in DOMAIN strengths : REq(batch.minimumStrength, strengths[i])
  /\ \E i \in DOMAIN strengths : REq(batch.maximumStrength, strengths[i])

\* the average, the minimum and the maximum of two batch results are equal
SameStatistics(a, b) ==
  /\ REq(a.averageStrength, b.averageStrength)
  /\ REq(a.minimumStrength, b.minimumStrength)
  /\ REq(a.maximumStrength, b.maximumStrength)

\* the claim of C30 for the numbers of exact arithmetic
BatchStatisticsExact ==
  /\ op = "calculateBatch" =>
       /\ StatisticsWithinItems(res, strengthsOf(res.results))
       /\ \A p \in PermutationsOf(arg[1]) :
            /\ SameStatistics(calculateBatch(p), res)
            /\ RootEq(calculateBatch(p).standardDeviation, res.standardDeviation)
  /\ op = "calculatePullOffBatch" =>
       /\ StatisticsWithinItems(res, [i \in DOMAIN res.results |-> res.results[i].tensileStrengthMPa])
       /\ \A p \in PermutationsOf(arg[1]) :
            /\ SameStatistics(calculatePullOffBatch(p), res)
            /\ RootEq(calculatePullOffBatch(p).standardDeviation, res.standardDeviation)

\* the claim of C30 for the doubles of the runtime, without the standard
\* deviation
BatchStatisticsDouble ==
  op = "calculatePullOffBatch_double" =>
    /\ StatisticsWithinItems(res, [i \in DOMAIN res.results |-> res.results[i].tensileStrengthMPa])
    /\ \A p \in PermutationsOf(arg[1]) : SameStatistics(calculatePullOffBatch_double(p), res)

\* C30: in every core and pull-off batch result with at least one item,
\* minimumStrength <= averageStrength <= maximumStrength, minimumStrength and
\* maximumStrength are each the strength of an item of results, and the three
\* statistics and standardDeviation are the same for every order of the input
\* items.
C30_BatchStatistics == BatchStatisticsExact /\ BatchStatisticsDouble

\* what holds in doubles: the minimum and the maximum are strengths of items
\* and do not depend on the order of the items, and with at most two items
\* the average lies between them and does not depend on the order either
C30_MinimumAndMaximum_double ==
  op = "calculatePullOffBatch_double" =>
    LET strengths == [i \in DOMAIN res.results |-> res.results[i].tensileStrengthMPa]
    IN  /\ \E i \in DOMAIN strengths : REq(res.minimumStrength, strengths[i])
        /\ \E i \in DOMAIN strengths : REq(res.maximumStrength, strengths[i])
        /\ RLe(res.minimumStrength, res.maximumStrength)
        /\ \A p \in PermutationsOf(arg[1]) :
             /\ REq(calculatePullOffBatch_double(p).minimumStrength, res.minimumStrength)
             /\ REq(calculatePullOffBatch_double(p).maximumStrength, res.maximumStrength)
        /\ Len(arg[1]) <= 2 =>
             /\ RLe(res.minimumStrength, res.averageStrength)
             /\ RLe(res.averageStrength, res.maximumStrength)
             /\ \A p \in PermutationsOf(arg[1]) :
                  REq(calculatePullOffBatch_double(p).averageStrength, res.averageStrength)

\* three specimens of 40.5 mm and 6.9 kN: the three strengths are one double,
\* and the average is above it
C30_Witness ==
  /\ op = "calculatePullOffBatch_double"
  /\ Len(arg[1]) = 3
  /\ arg[1][1] = arg[1][2]
  /\ arg[1][2] = arg[1][3]
  /\ REq(res.minimumStrength, res.maximumStrength)
  /\ RLt(res.maximumStrength, res.averageStrength)

\* two specimens of 40.5 mm and 6.9 kN and one of 49.5 mm and 3.6 kN: the
\* average with the third specimen last is not the average with it first
C30_WitnessOrder ==
  /\ op = "calculatePullOffBatch_double"
  /\ Len(arg[1]) = 3
  /\ arg[1][1] = arg[1][2]
  /\ arg[1][2] # arg[1][3]
  /\ ~REq(res.averageStrength,
          calculatePullOffBatch_double(<<arg[1][3], arg[1][1], arg[1][2]>>).averageStrength)

====
